---- MODULE Spec2Model ----
(***************************************************************************)
(* Model of docker_optimizer.py: the rule-based analysis engine            *)
(* (validate_dockerfile, the size and build-time estimators, the security  *)
(* checklist, the CIS benchmark assessment, the environment analysis, the   *)
(* secret and escape-risk scanners, the template synthesizer), the order   *)
(* in which main() runs them (Spec; RunSpec also remembers the files the   *)
(* run found), and the engine functions called one by one as a library     *)
(* (LibrarySpec).                                                          *)
(*                                                                         *)
(* Dockerfile text is a TLA+ string; Python's str operations are modelled  *)
(* on it character by character (Len, SubSeq, \o).                         *)
(* Sizes are integers in thousandths of a GB (mGB), times in seconds.      *)
(***************************************************************************)
EXTENDS Integers, Sequences, FiniteSets, TLC

\* the number of fragments an input Dockerfile is made of
MaxLines == 2

(***************************************************************************)
(* Python str / re primitives                                              *)
(***************************************************************************)
Char(t, i) == SubSeq(t, i, i)

Min(S) == CHOOSE m \in S : \A n \in S : m <= n

Max(S) == CHOOSE m \in S : \A n \in S : m >= n

\* the characters the regex class \s matches
Whitespace == {" ", "\t", "\n", "\r", "\f"}

UpperCase == "ABCDEFGHIJKLMNOPQRSTUVWXYZ"

LowerCase == "abcdefghijklmnopqrstuvwxyz"

Digits == "0123456789"

UpperSet == {Char(UpperCase, i) : i \in 1..26}

\* the regex class [\w.-]
WordChars == {Char(UpperCase, i) : i \in 1..26} \cup {Char(LowerCase, i) : i \in 1..26}
             \cup {Char(Digits, i) : i \in 1..10} \cup {"_", ".", "-"}

ToLower == [c \in UpperSet |-> Char(LowerCase, CHOOSE i \in 1..26 : Char(UpperCase, i) = c)]

LowerChar(c) == IF c \in UpperSet THEN ToLower[c] ELSE c

\* str.lower()
RECURSIVE lower(_)
lower(t) ==
    IF Len(t) = 0 THEN ""
    ELSE IF Len(t) = 1 THEN LowerChar(t)
    ELSE LET h == Len(t) \div 2
         IN  lower(SubSeq(t, 1, h)) \o lower(SubSeq(t, h + 1, Len(t)))

\* t[i:i+len(p)] == p  (1-based i)
StartsAt(t, p, i) == i >= 1 /\ i + Len(p) - 1 <= Len(t) /\ SubSeq(t, i, i + Len(p) - 1) = p

\* the positions where the literal p occurs in t
Occurrences(t, p) == {i \in 1..(Len(t) - Len(p) + 1) : SubSeq(t, i, i + Len(p) - 1) = p}

\* p in t
Contains(t, p) == \E i \in 1..(Len(t) - Len(p) + 1) : SubSeq(t, i, i + Len(p) - 1) = p

\* any(p in t for p in ps)
ContainsAny(t, ps) == \E p \in ps : Contains(t, p)

\* t.find(p): 0-based offset of the first occurrence, -1 when absent
find(t, p) == IF Contains(t, p) THEN Min(Occurrences(t, p)) - 1 ELSE -1

\* len(re.findall(p, t)) for a literal p: matches are taken left to right
\* and do not overlap
RECURSIVE GreedyCount(_, _, _)
GreedyCount(M, len, from) ==
    LET N == {i \in M : i >= from}
    IN  IF N = {} THEN 0 ELSE 1 + GreedyCount(M, len, Min(N) + len)

findall_count(t, p) == GreedyCount(Occurrences(t, p), Len(p), 1)

\* first index >= i that does not hold whitespace (Len(t)+1 when none)
SkipWs(t, i) ==
    LET S == {j \in i..Len(t) : Char(t, j) \notin Whitespace}
    IN  IF S = {} THEN Len(t) + 1 ELSE Min(S)

\* first index >= i that holds a character of the set cs (Len(t)+1 when none)
NextIn(t, i, cs) ==
    LET S == {j \in i..Len(t) : Char(t, j) \in cs}
    IN  IF S = {} THEN Len(t) + 1 ELSE Min(S)

\* the regex a\s+b matches at i (a, b literals, b not starting with whitespace)
MatchWs(t, a, b, i) ==
    /\ StartsAt(t, a, i)
    /\ i + Len(a) <= Len(t)
    /\ Char(t, i + Len(a)) \in Whitespace
    /\ StartsAt(t, b, SkipWs(t, i + Len(a)))

\* re.findall(r"a\s+b", t) is not empty
search_ws(t, a, b) == \E i \in 1..Len(t) : MatchWs(t, a, b, i)

\* the starts of the words of t.split(); a word ends before the next whitespace
WordStarts(t) ==
    {i \in 1..Len(t) : Char(t, i) \notin Whitespace /\ (i = 1 \/ Char(t, i - 1) \in Whitespace)}

WordAt(t, i) == SubSeq(t, i, NextIn(t, i, Whitespace) - 1)

\* len(re.findall(r"[\w.-]+", t)): the maximal runs of word characters
word_run_count(t) ==
    Cardinality({i \in 1..Len(t) :
        Char(t, i) \in WordChars /\ (i = 1 \/ Char(t, i - 1) \notin WordChars)})

(***************************************************************************)
(* validate_dockerfile                                                     *)
(***************************************************************************)
CriticalPipe == "Insecure pipe installation detected"

CriticalRoot == "Running as root user detected"

WarnLatest == "Using 'latest' tag is not recommended for production"

WarnUpgrade == "Avoid 'apt-get upgrade' without pinning versions"

WarnNoCache == "Missing --no-cache in apt-get commands"

\* validate_issues with the 'latest' finding filed as critical
validate_issues_latest_critical(content) ==
    LET c == lower(content)
    IN  [critical |->
            (IF Contains(c, "curl | bash") THEN <<CriticalPipe>> ELSE <<>>)
            \o (IF Contains(c, "latest") THEN <<WarnLatest>> ELSE <<>>)
            \o (IF Contains(c, "root") /\ ~Contains(c, "user ") THEN <<CriticalRoot>> ELSE <<>>),
         warnings |->
            (IF Contains(c, "apt-get upgrade") THEN <<WarnUpgrade>> ELSE <<>>)
            \o (IF Contains(c, "apt-get") /\ ~Contains(c, "--no-cache")
                THEN <<WarnNoCache>> ELSE <<>>),
         recommendations |-> <<>>]

\* the issues dictionary: critical and warnings in the order they are appended
validate_issues(content) ==
    LET c == lower(content)
    IN  [critical |->
            (IF Contains(c, "curl | bash") THEN <<CriticalPipe>> ELSE <<>>)
            \o (IF Contains(c, "root") /\ ~Contains(c, "user ") THEN <<CriticalRoot>> ELSE <<>>),
         warnings |->
            (IF Contains(c, "latest") THEN <<WarnLatest>> ELSE <<>>)
            \o (IF Contains(c, "apt-get upgrade") THEN <<WarnUpgrade>> ELSE <<>>)
            \o (IF Contains(c, "apt-get") /\ ~Contains(c, "--no-cache")
                THEN <<WarnNoCache>> ELSE <<>>),
         recommendations |-> <<>>]

validate_dockerfile(content) ==
    LET issues == validate_issues(content)
    IN  [valid |-> Len(issues.critical) = 0, issues |-> issues]

(***************************************************************************)
(* enhanced_image_size_estimation                                          *)
(***************************************************************************)
\* re.search(r"FROM\s+([^\s:]+):?([^\s]*)", t) matches at i
FromMatchAt(t, i) ==
    /\ StartsAt(t, "FROM", i)
    /\ i + 4 <= Len(t)
    /\ Char(t, i + 4) \in Whitespace
    /\ SkipWs(t, i + 4) <= Len(t)
    /\ Char(t, SkipWs(t, i + 4)) # ":"

\* groups 1 and 2 of the first match, lower-cased; matched = FALSE when
\* the search finds nothing
base_image_match(t) ==
    LET M == {i \in 1..Len(t) : FromMatchAt(t, i)}
    IN  IF M = {} THEN [matched |-> FALSE, image |-> "", tag |-> ""]
        ELSE LET j  == SkipWs(t, Min(M) + 4)
                 e1 == NextIn(t, j, Whitespace \cup {":"})
                 g2 == IF e1 <= Len(t) /\ Char(t, e1) = ":" THEN e1 + 1 ELSE e1
                 e2 == NextIn(t, g2, Whitespace)
             IN  [matched |-> TRUE,
                  image   |-> lower(SubSeq(t, j, e1 - 1)),
                  tag     |-> lower(SubSeq(t, g2, e2 - 1))]

DefaultBaseSize == 1000

\* the base size in mGB, first matching branch wins
base_size(m) ==
    IF ~m.matched THEN DefaultBaseSize
    ELSE IF Contains(m.image, "alpine") \/ Contains(m.tag, "alpine") THEN 400
    ELSE IF Contains(m.image, "scratch") THEN 200
    ELSE IF Contains(m.tag, "slim") THEN 700
    ELSE IF Contains(m.image, "ubuntu") THEN 1300
    ELSE IF Contains(m.image, "debian") THEN 1100
    ELSE IF Contains(m.image, "node")
         THEN (IF Contains(m.tag, "alpine") THEN 600 ELSE 1500)
    ELSE IF Contains(m.image, "python")
         THEN (IF Contains(m.tag, "alpine") THEN 700
               ELSE IF Contains(m.tag, "slim") THEN 900 ELSE 1300)
    ELSE IF Contains(m.image, "golang")
         THEN (IF Contains(m.tag, "alpine") THEN 600 ELSE 1400)
    ELSE IF Contains(m.image, "openjdk") \/ Contains(m.image, "java")
         THEN (IF Contains(m.tag, "alpine") THEN 1000 ELSE 1600)
    ELSE DefaultBaseSize

AptStops == {"&", "|", ";"}

\* r"apt-get\s+install\s+[^&|;]+" matches at i of the lower-cased text
AptMatchAt(l, i) ==
    /\ MatchWs(l, "apt-get", "install", i)
    /\ LET m == SkipWs(l, i + 7) + 7
       IN  /\ m + 1 <= Len(l)
           /\ Char(l, m) \in Whitespace
           /\ Char(l, m + 1) \notin AptStops

\* last index of the match that starts at i
AptMatchEnd(l, i) == NextIn(l, SkipWs(l, i + 7) + 8, AptStops) - 1

\* the words after 'install' that are neither options nor a line continuation
apt_words(s) ==
    Cardinality({i \in WordStarts(s) : Char(s, i) # "-" /\ WordAt(s, i) # "\\"})

RECURSIVE apt_package_count(_, _)
apt_package_count(l, from) ==
    LET M == {i \in from..Len(l) : AptMatchAt(l, i)}
    IN  IF M = {} THEN 0
        ELSE LET i == Min(M)
                 e == AptMatchEnd(l, i)
             IN  apt_words(SubSeq(l, SkipWs(l, i + 7) + 7, e))
                 + apt_package_count(l, e + 1)

heavy_packages == {"tensorflow", "pytorch", "torch", "scipy", "pandas", "numpy", "scikit-learn"}

large_data_patterns == {"data", "dataset", "images", "models", "assets"}

cache_markers == {"/var/cache", "apt-get clean", "npm cache", "pip cache"}

\* is_multi_stage or has_multiple_froms
size_is_multi_stage(t) ==
    \/ Contains(lower(t), "as builder")
    \/ Contains(lower(t), "as build")
    \/ findall_count(t, "\nFROM ") > 1

\* the size before the optimisation rules, in mGB
original_size_raw(t) ==
    LET l == lower(t)
        npm_size == IF Contains(t, "package.json")
                       /\ (search_ws(l, "npm", "install") \/ search_ws(l, "yarn", "install"))
                    THEN (IF Contains(l, "--production") \/ Contains(t, "NODE_ENV=production")
                          THEN 200 ELSE 400)
                    ELSE 0
        pip_size == IF Contains(t, "requirements.txt") \/ search_ws(l, "pip", "install")
                    THEN 250 + 300 * Cardinality({p \in heavy_packages : Contains(l, p)})
                    ELSE 0
        layers   == findall_count(t, "\nRUN ") + findall_count(t, "\nCOPY ")
                    + findall_count(t, "\nADD ")
    IN  base_size(base_image_match(t))
        + apt_package_count(l, 1) * 50
        + npm_size
        + pip_size
        + 300 * Cardinality({p \in large_data_patterns : Contains(l, p)})
        + layers * 20

CacheReduction == 10

LayerReduction == 10

\* size_reduction with the layer reduction counted four times
size_reduction_heavy(t) ==
    (IF Contains(t, "rm -rf") /\ ContainsAny(t, cache_markers) THEN CacheReduction ELSE 0)
    + (IF Contains(t, "&&") THEN 4 * LayerReduction ELSE 0)

\* the accumulated reduction of the single-stage branch, in percent
size_reduction(t) ==
    (IF Contains(t, "rm -rf") /\ ContainsAny(t, cache_markers) THEN CacheReduction ELSE 0)
    + (IF Contains(t, "&&") THEN LayerReduction ELSE 0)

MinKeepSize == 70

\* optimized_size_raw with the two multi-stage factors exchanged
optimized_size_swapped(t, original) ==
    IF size_is_multi_stage(t)
    THEN (IF search_ws(t, "COPY", "--from")
          THEN (original * 60) \div 100
          ELSE (original * 40) \div 100)
    ELSE LET reduced == (original * (100 - size_reduction(t))) \div 100
         IN  IF reduced > (original * MinKeepSize) \div 100
             THEN (original * MinKeepSize) \div 100
             ELSE reduced

\* the optimized size before rounding, in mGB (original is a multiple of 10)
optimized_size_raw(t, original) ==
    IF size_is_multi_stage(t)
    THEN (IF search_ws(t, "COPY", "--from")
          THEN (original * 40) \div 100
          ELSE (original * 60) \div 100)
    ELSE LET reduced == (original * (100 - size_reduction(t))) \div 100
         IN  IF reduced > (original * MinKeepSize) \div 100
             THEN (original * MinKeepSize) \div 100
             ELSE reduced

\* round(x, 1) on a value in mGB.  A value exactly halfway between two
\* tenths is not representable as a float: which way it goes depends on the
\* representation error of the float computed, given by tieUp.
round1(x, tieUp) ==
    LET r == x % 100
    IN  IF r < 50 THEN x - r
        ELSE IF r > 50 THEN x - r + 100
        ELSE IF tieUp THEN x + 50 ELSE x - 50

enhanced_image_size_estimation(t, tieUp) ==
    LET original_size  == original_size_raw(t)
        optimized_size == optimized_size_raw(t, original_size)
    IN  [base           |-> base_size(base_image_match(t)),
         original_raw   |-> original_size,
         optimized_raw  |-> optimized_size,
         multi_stage    |-> size_is_multi_stage(t),
         copy_from      |-> search_ws(t, "COPY", "--from"),
         reduction      |-> IF size_is_multi_stage(t) THEN 0 ELSE size_reduction(t),
         original_size  |-> round1(original_size, tieUp),
         optimized_size |-> round1(optimized_size, tieUp)]

(***************************************************************************)
(* enhanced_build_time_estimation                                          *)
(***************************************************************************)
\* r"KW\s+(.+?)(?:\n|$)" matches at i: the keyword, whitespace, then at
\* least one character other than a newline
CmdMatchAt(t, kw, i) ==
    /\ StartsAt(t, kw, i)
    /\ i + Len(kw) <= Len(t)
    /\ Char(t, i + Len(kw)) \in Whitespace
    /\ \/ SkipWs(t, i + Len(kw)) <= Len(t)
       \/ \E q \in (i + Len(kw) + 1)..Len(t) : Char(t, q) # "\n"

\* first index of group 1 of the match at i.  When only whitespace follows
\* the keyword, \s+ gives back the last character that is not a newline.
CmdStart(t, kw, i) ==
    IF SkipWs(t, i + Len(kw)) <= Len(t)
    THEN SkipWs(t, i + Len(kw))
    ELSE Max({q \in (i + Len(kw) + 1)..Len(t) : Char(t, q) # "\n"})

\* re.findall(r"KW\s+(.+?)(?:\n|$)", t) from index from on: the commands,
\* each running to the end of its line
RECURSIVE findall_commands(_, _, _)
findall_commands(t, kw, from) ==
    LET M == {i \in from..Len(t) : CmdMatchAt(t, kw, i)}
    IN  IF M = {} THEN <<>>
        ELSE LET k  == CmdStart(t, kw, Min(M))
                 nl == NextIn(t, k, {"\n"})
             IN  <<SubSeq(t, k, nl - 1)>> \o findall_commands(t, kw, nl + 1)

BaseTime == 30

db_clients == {"mysql", "postgres", "mongodb"}

build_tools == {"make", "cmake", "gcc", "build", "compile"}

\* the seconds one RUN command adds
run_command_time(cmd) ==
    LET c == lower(cmd)
    IN  (IF Contains(c, "apt-get update") THEN 15 ELSE 0)
        + (IF Contains(c, "apt-get install")
           THEN Min({10 + word_run_count(c) * 2, 60}) ELSE 0)
        + (IF Contains(c, "npm install")
           THEN (IF Contains(c, "--production") THEN 40 ELSE 90) ELSE 0)
        + (IF Contains(c, "yarn install")
           THEN (IF Contains(c, "--production") \/ Contains(c, "--frozen-lockfile")
                 THEN 35 ELSE 80) ELSE 0)
        + (IF Contains(c, "pip install")
           THEN (IF Contains(c, "requirements.txt") THEN 40
                 ELSE Min({15 + word_run_count(c) * 3, 50})) ELSE 0)
        + (IF ContainsAny(c, db_clients) THEN 20 ELSE 0)
        + (IF ContainsAny(c, build_tools) THEN 60 ELSE 0)
        + (IF Contains(c, "wget") \/ Contains(c, "curl") THEN 15 ELSE 0)
        + (IF Contains(c, "tar") \/ Contains(c, "unzip") \/ Contains(c, "gunzip")
           THEN 10 ELSE 0)
        + (IF Contains(c, "git clone")
           THEN 25 + (IF ~Contains(c, "depth=1") THEN 15 ELSE 0) ELSE 0)

\* the seconds one ADD command adds
add_command_time(cmd) ==
    IF Contains(cmd, "http://") \/ Contains(cmd, "https://") THEN 15
    ELSE IF Contains(cmd, ".tar") \/ Contains(cmd, ".gz") \/ Contains(cmd, ".zip") THEN 10
    ELSE 5

CopyTime == 5

RECURSIVE SumSeq(_)
SumSeq(s) == IF s = <<>> THEN 0 ELSE Head(s) + SumSeq(Tail(s))

\* original_time_of with nothing counted for the build itself
original_time_of_commands_only(t) ==
    LET runs == findall_commands(t, "RUN", 1)
        adds == findall_commands(t, "ADD", 1)
    IN  SumSeq([i \in 1..Len(runs) |-> run_command_time(runs[i])])
        + CopyTime * Len(findall_commands(t, "COPY", 1))
        + SumSeq([i \in 1..Len(adds) |-> add_command_time(adds[i])])

original_time_of(t) ==
    LET runs == findall_commands(t, "RUN", 1)
        adds == findall_commands(t, "ADD", 1)
    IN  BaseTime
        + SumSeq([i \in 1..Len(runs) |-> run_command_time(runs[i])])
        + CopyTime * Len(findall_commands(t, "COPY", 1))
        + SumSeq([i \in 1..Len(adds) |-> add_command_time(adds[i])])

has_dependency_first(t) ==
    LET l == lower(t)
    IN  \/ find(l, "requirements.txt") < find(l, "copy . .")
        \/ find(l, "package.json") < find(l, "copy . .")

time_is_multi_stage(t) ==
    \/ Contains(lower(t), "as builder")
    \/ Contains(lower(t), "as build")
    \/ findall_count(t, "\nFROM ") > 1

ReorderReduction == 15

IgnoreReduction == 10

CombineReduction == 15

MaxSeparateRuns == 3

\* the accumulated reduction of the single-stage branch, in percent
time_reduction(t) ==
    (IF ~has_dependency_first(t) THEN ReorderReduction ELSE 0)
    + (IF ~Contains(t, ".dockerignore") THEN IgnoreReduction ELSE 0)
    + (IF Len(findall_commands(t, "RUN", 1)) > MaxSeparateRuns /\ ~Contains(t, "&&")
       THEN CombineReduction ELSE 0)

\* the largest power of two below n (n >= 2)
RECURSIVE Pow2Below(_, _)
Pow2Below(n, k) == IF 2 * k < n THEN Pow2Below(n, 2 * k) ELSE k

\* int(o * f) for the float f nearest to keep/100.  The float 0.7 lies below
\* 7/10 by 0.4 units in the last place, so a product that is a whole number
\* in exact arithmetic comes out one unit lower when o * 0.4 exceeds the
\* spacing of the floats below the product; the floats 0.6, 0.75, 0.8, 0.85
\* and 0.9 give the exact floor.
int_scaled(o, keep) ==
    IF keep = 70 /\ o % 10 = 0 /\ o > 0 /\ 4 * o > 10 * Pow2Below((7 * o) \div 10, 1)
    THEN (o * keep) \div 100 - 1
    ELSE (o * keep) \div 100

MultiStageKeepTime == 60

MinKeepTime == 80

\* optimized_time_of without the minimum of 20%
optimized_time_no_minimum(t, original) ==
    IF time_is_multi_stage(t)
    THEN int_scaled(original, MultiStageKeepTime)
    ELSE int_scaled(original, 100 - time_reduction(t))

\* optimized_time_of with the multi-stage share added instead of kept
optimized_time_of_share_added(t, original) ==
    IF time_is_multi_stage(t)
    THEN original + int_scaled(original, MultiStageKeepTime)
    ELSE LET reduced == int_scaled(original, 100 - time_reduction(t))
         IN  IF reduced > int_scaled(original, MinKeepTime)
             THEN int_scaled(original, MinKeepTime)
             ELSE reduced

optimized_time_of(t, original) ==
    IF time_is_multi_stage(t)
    THEN int_scaled(original, MultiStageKeepTime)
    ELSE LET reduced == int_scaled(original, 100 - time_reduction(t))
         IN  IF reduced > int_scaled(original, MinKeepTime)
             THEN int_scaled(original, MinKeepTime)
             ELSE reduced

enhanced_build_time_estimation(t) ==
    LET original == original_time_of(t)
    IN  [original_time  |-> original,
         optimized_time |-> optimized_time_of(t, original),
         multi_stage    |-> time_is_multi_stage(t),
         reordered      |-> ~time_is_multi_stage(t) /\ ~has_dependency_first(t),
         reduction      |-> time_reduction(t)]

(***************************************************************************)
(* generate_security_checklist                                             *)
(***************************************************************************)
cleanup_commands == {"rm -rf /var/cache", "apt-get clean", "npm cache clean", "pip cache purge"}

multi_stage_markers_and_user == {"as builder", "as build", "--from=", "multi-stage", "user "}

multi_stage_markers == {"as builder", "as build", "--from=", "multi-stage"}

ChecklistKeys ==
    {"Non-root user configured", "Specific version tags (no 'latest')",
     "Curl piped to shell", "Package cache cleanup", "Exposed ports properly managed",
     "Healthcheck configured", "Multi-stage build"}

generate_security_checklist(t) ==
    LET l == lower(t)
    IN  ("Non-root user configured" :> Contains(l, "user "))
        @@ ("Specific version tags (no 'latest')" :> ~Contains(l, "latest"))
        @@ ("Curl piped to shell" :> ~(Contains(l, "curl") /\ Contains(l, " | ")))
        @@ ("Package cache cleanup" :> ContainsAny(l, cleanup_commands))
        @@ ("Exposed ports properly managed" :> Contains(l, "expose"))
        @@ ("Healthcheck configured" :> Contains(l, "healthcheck"))
        @@ ("Multi-stage build" :>
               (ContainsAny(l, multi_stage_markers) \/ findall_count(t, "\nFROM ") > 1))

(***************************************************************************)
(* analyze_environment_differences                                         *)
(***************************************************************************)
debug_tools ==
    {"vim", "nano", "curl", "wget", "telnet", "netcat", "nc", "strace", "gdb", "valgrind"}

FillerFeature == "Standard build process"

MinFeatures == 2

\* the filler appended to a features list that is shorter than MinFeatures
with_filler(features) ==
    IF Len(features) < MinFeatures THEN Append(features, FillerFeature) ELSE features

analyze_environment_differences(t) ==
    LET l == lower(t)
        has_dev_mode  == Contains(l, "development") \/ Contains(l, "dev")
        has_prod_mode == Contains(l, "production") \/ Contains(l, "prod")
        has_dev_deps  == Contains(t, "devDependencies") \/ Contains(t, "--dev")
        has_debug_tools == ContainsAny(l, debug_tools)
        is_multi_stage == findall_count(t, "\nFROM ") > 1
        has_env_specific_instructions ==
            Contains(t, "if [ \"$NODE_ENV\" = \"production\" ]") \/ Contains(t, "ARG ENV")
        combined == has_dev_mode /\ has_prod_mode
        separate == ~combined /\ ~has_env_specific_instructions
        dev_features ==
            (IF has_debug_tools THEN <<"Debug tools included">> ELSE <<>>)
            \o (IF has_dev_deps THEN <<"Development dependencies installed">> ELSE <<>>)
            \o (IF has_env_specific_instructions
                THEN <<"Environment-specific conditional logic">> ELSE <<>>)
            \o (IF combined
                THEN <<"Combined dev/prod Dockerfile with environment detection">> ELSE <<>>)
        prod_features ==
            (IF has_env_specific_instructions
             THEN <<"Environment-specific optimizations">> ELSE <<>>)
            \o (IF is_multi_stage
                THEN <<"Uses multi-stage build for minimal image size">> ELSE <<>>)
            \o (IF combined
                THEN <<"Combined dev/prod Dockerfile with environment detection">> ELSE <<>>)
        dev_recommendations ==
            (IF ~has_env_specific_instructions
             THEN <<"Add environment-specific conditional logic (ARG ENV)">> ELSE <<>>)
            \o (IF separate
                THEN <<"Consider separate Dockerfiles (Dockerfile.dev and Dockerfile.prod)">>
                ELSE <<>>)
            \o (IF Len(dev_features) < MinFeatures
                THEN <<"Add dev-specific tools and dependencies">> ELSE <<>>)
        prod_recommendations ==
            (IF has_debug_tools THEN <<"Remove debugging tools in production">> ELSE <<>>)
            \o (IF has_dev_deps
                THEN <<"Use --production flag for npm/yarn in production">> ELSE <<>>)
            \o (IF ~has_env_specific_instructions
                THEN <<"Use build arguments to create optimized production builds">>
                ELSE <<>>)
            \o (IF ~is_multi_stage
                THEN <<"Implement multi-stage build for production">> ELSE <<>>)
            \o (IF separate
                THEN <<"Consider separate Dockerfiles (Dockerfile.dev and Dockerfile.prod)">>
                ELSE <<>>)
            \o (IF Len(prod_features) < MinFeatures
                THEN <<"Optimize for size and security">> ELSE <<>>)
    IN  [development |-> [features        |-> with_filler(dev_features),
                          recommendations |-> dev_recommendations],
         production  |-> [features        |-> with_filler(prod_features),
                          recommendations |-> prod_recommendations],
         multi_stage |-> is_multi_stage]

(***************************************************************************)
(* cis_docker_benchmark_assessment (the second definition, in effect)      *)
(***************************************************************************)
known_registries ==
    {"docker.io", "gcr.io", "quay.io", "mcr.microsoft.com", "registry.access.redhat.com"}

secret_keywords == {"password", "secret", "key", "token", "auth", "cred"}

\* Item with the id of the last item mistyped
Item_mistyped(list, id, severity) ==
    [list |-> list, id |-> IF id = "4.11" THEN "4.1" ELSE id, severity |-> severity]

\* Item with the items that are skipped left unrated
Item_skipped_unrated(list, id, severity) ==
    [list |-> list, id |-> id, severity |-> IF list = "skipped" THEN "NONE" ELSE severity]

\* one append: the list an item goes to, and the item
Item(list, id, severity) == [list |-> list, id |-> id, severity |-> severity]

\* the eleven appends in the order the function performs them
cis_appends(t) ==
    << IF Contains(t, "USER ") /\ ~Contains(t, "USER root")
       THEN Item("passed", "4.1", "HIGH") ELSE Item("failed", "4.1", "HIGH"),
       IF ContainsAny(t, known_registries)
       THEN Item("passed", "4.2", "MEDIUM") ELSE Item("skipped", "4.2", "MEDIUM"),
       IF Contains(t, "apk --no-cache") \/ Contains(t, "apt-get --no-install-recommends")
       THEN Item("passed", "4.3", "MEDIUM") ELSE Item("failed", "4.3", "MEDIUM"),
       IF ~Contains(t, "latest")
       THEN Item("passed", "4.4", "HIGH") ELSE Item("failed", "4.4", "HIGH"),
       Item("skipped", "4.5", "MEDIUM"),
       IF Contains(t, "HEALTHCHECK")
       THEN Item("passed", "4.6", "MEDIUM") ELSE Item("failed", "4.6", "MEDIUM"),
       IF Contains(t, "apt-get update") /\ ~Contains(t, "apt-get update &&")
       THEN Item("failed", "4.7", "LOW") ELSE Item("passed", "4.7", "LOW"),
       IF Contains(t, "chmod -R") /\ Contains(t, "find / -perm")
       THEN Item("passed", "4.8", "HIGH") ELSE Item("skipped", "4.8", "HIGH"),
       IF Contains(t, "ADD")
       THEN Item("failed", "4.9", "LOW") ELSE Item("passed", "4.9", "LOW"),
       IF ContainsAny(lower(t), secret_keywords)
       THEN Item("failed", "4.10", "CRITICAL") ELSE Item("passed", "4.10", "CRITICAL"),
       IF Contains(t, "apt-get install") /\ ~Contains(t, "--allow-unauthenticated")
       THEN Item("passed", "4.11", "MEDIUM") ELSE Item("skipped", "4.11", "MEDIUM") >>

\* the items appended to one list, in order, without the list name
cis_list(appends, list) ==
    LET sel == SelectSeq(appends, LAMBDA a : a.list = list)
    IN  [i \in 1..Len(sel) |-> [id |-> sel[i].id, severity |-> sel[i].severity]]

cis_docker_benchmark_assessment(t) ==
    LET appends == cis_appends(t)
    IN  [passed  |-> cis_list(appends, "passed"),
         failed  |-> cis_list(appends, "failed"),
         skipped |-> cis_list(appends, "skipped")]

\* compliance_of rounding to the nearest integer
compliance_rounded(passed_count, total_assessed) ==
    (passed_count * 200 + total_assessed) \div (2 * total_assessed)

\* int((passed_count / total_assessed) * 100); the float quotient times 100
\* truncates to the exact floor for every total up to 11
compliance_of(passed_count, total_assessed) == (passed_count * 100) \div total_assessed

\* the score main() and generate_dockerfile_security_report compute, NoScore
\* when nothing was assessed
NoScore == -1

\* compliance_score with no score when none of the skippable items was assessed
compliance_score_above_seven(assessment) ==
    LET passed_count == Len(assessment.passed)
        total_assessed == Len(assessment.passed) + Len(assessment.failed)
    IN  IF total_assessed > 7 THEN compliance_of(passed_count, total_assessed) ELSE NoScore

compliance_score(assessment) ==
    LET passed_count == Len(assessment.passed)
        total_assessed == Len(assessment.passed) + Len(assessment.failed)
    IN  IF total_assessed > 0 THEN compliance_of(passed_count, total_assessed) ELSE NoScore

(***************************************************************************)
(* add_dockerfile_healthcheck                                              *)
(***************************************************************************)
DigitSet == {Char(Digits, i) : i \in 1..10}

DefaultPort == "8080"

\* group 1 of re.search(r"EXPOSE\s+(\d+)", t), DefaultPort when no match
exposed_port(t) ==
    LET M == {i \in 1..Len(t) :
                 /\ StartsAt(t, "EXPOSE", i)
                 /\ i + 6 <= Len(t)
                 /\ Char(t, i + 6) \in Whitespace
                 /\ SkipWs(t, i + 6) <= Len(t)
                 /\ Char(t, SkipWs(t, i + 6)) \in DigitSet}
    IN  IF M = {} THEN DefaultPort
        ELSE LET d == SkipWs(t, Min(M) + 6)
                 S == {j \in d..Len(t) : Char(t, j) \notin DigitSet}
                 e == IF S = {} THEN Len(t) + 1 ELSE Min(S)
             IN  SubSeq(t, d, e - 1)

HealthcheckOptions == "HEALTHCHECK --interval=30s --timeout=5s --start-period=5s --retries=3 CMD "

healthcheck_line(t) ==
    LET l == lower(t)
        port == exposed_port(t)
    IN  IF ContainsAny(l, {"node", "npm", "yarn"})
        THEN HealthcheckOptions \o "wget -q -O- http://localhost:" \o port \o "/health || exit 1"
        ELSE IF ContainsAny(l, {"python", "pip", "django", "flask"})
        THEN HealthcheckOptions \o "curl -f http://localhost:" \o port \o "/health || exit 1"
        ELSE IF ContainsAny(l, {"java", "mvn", "gradle"})
        THEN HealthcheckOptions \o "curl -f http://localhost:" \o port
             \o "/actuator/health || exit 1"
        ELSE HealthcheckOptions \o "wget -q -O- http://localhost:" \o port \o "/ || exit 1"

\* add_dockerfile_healthcheck which inserts before CMD when there is one,
\* before ENTRYPOINT otherwise
add_dockerfile_healthcheck_before_cmd(t) ==
    IF Contains(t, "HEALTHCHECK") THEN t
    ELSE LET cmd_pos == find(t, "CMD ")
             entrypoint_pos == find(t, "ENTRYPOINT ")
         IN  IF cmd_pos = -1 /\ entrypoint_pos = -1
             THEN t \o "\n\n# Add healthcheck\n" \o healthcheck_line(t)
             ELSE LET insert_pos == IF cmd_pos >= 0 THEN cmd_pos ELSE entrypoint_pos
                  IN  SubSeq(t, 1, insert_pos) \o "\n# Add healthcheck\n"
                      \o healthcheck_line(t) \o "\n\n"
                      \o SubSeq(t, insert_pos + 1, Len(t))

add_dockerfile_healthcheck(t) ==
    IF Contains(t, "HEALTHCHECK") THEN t
    ELSE LET cmd_pos == find(t, "CMD ")
             entrypoint_pos == find(t, "ENTRYPOINT ")
         IN  IF cmd_pos = -1 /\ entrypoint_pos = -1
             THEN t \o "\n\n# Add healthcheck\n" \o healthcheck_line(t)
             ELSE LET insert_pos == Min({x \in {cmd_pos, entrypoint_pos} : x >= 0})
                  IN  SubSeq(t, 1, insert_pos) \o "\n# Add healthcheck\n"
                      \o healthcheck_line(t) \o "\n\n"
                      \o SubSeq(t, insert_pos + 1, Len(t))

(***************************************************************************)
(* integrate_vulnerability_scanning                                        *)
(***************************************************************************)
ScanningComment ==
    "\n# Security Scanning:\n"
    \o "# After building this image, scan it for vulnerabilities with:\n"
    \o "# trivy image --severity HIGH,CRITICAL $(docker images -q | head -n 1)\n"
    \o "# or\n"
    \o "# docker scout cves $(docker images -q | head -n 1)\n"

integrate_vulnerability_scanning(t) ==
    IF ~Contains(t, "FROM ") THEN ScanningComment \o t
    ELSE LET last_from == Max(Occurrences(t, "FROM "))
             end_of_line == NextIn(t, last_from, {"\n"})
         IN  SubSeq(t, 1, Min({end_of_line, Len(t)})) \o ScanningComment
             \o SubSeq(t, end_of_line + 1, Len(t))

(***************************************************************************)
(* apply_optimized_dockerfile                                              *)
(***************************************************************************)
\* apply_optimized_dockerfile which goes on to the Dockerfile when the
\* backup could not be written
apply_optimized_dockerfile_unsaved(files, optimized_content, response, backed_up, written) ==
    IF response = "y"
    THEN [files EXCEPT
            !.backup = IF backed_up THEN <<files.dockerfile>> ELSE @,
            !.dockerfile = IF written THEN optimized_content ELSE @]
    ELSE files

\* the files after apply_optimized_dockerfile(dockerfile_path,
\* optimized_content) with the answer response; backed_up and written tell
\* whether the backup and the Dockerfile could be written.  An exception
\* from the backup skips the write of the Dockerfile.
apply_optimized_dockerfile(files, optimized_content, response, backed_up, written) ==
    IF response = "y" /\ backed_up
    THEN [files EXCEPT
            !.backup = <<files.dockerfile>>,
            !.dockerfile = IF written THEN optimized_content ELSE @]
    ELSE files

(***************************************************************************)
(* generate_env_optimized_dockerfile                                       *)
(***************************************************************************)
\* groups 1 and 2 of re.search(r"FROM\s+([^\s:]+):?([^\s]*)", t) as written
\* in the text; matched = FALSE when the search finds nothing
from_groups(t) ==
    LET M == {i \in 1..Len(t) : FromMatchAt(t, i)}
    IN  IF M = {} THEN [matched |-> FALSE, image |-> "", tag |-> ""]
        ELSE LET j  == SkipWs(t, Min(M) + 4)
                 e1 == NextIn(t, j, Whitespace \cup {":"})
                 g2 == IF e1 <= Len(t) /\ Char(t, e1) = ":" THEN e1 + 1 ELSE e1
                 e2 == NextIn(t, g2, Whitespace)
             IN  [matched |-> TRUE,
                  image   |-> SubSeq(t, j, e1 - 1),
                  tag     |-> SubSeq(t, g2, e2 - 1)]

DefaultBaseImage == "alpine:3.16"

families == <<"node", "python", "golang", "java", "openjdk", "ubuntu", "debian", "alpine">>

\* the first family named in the image or in the tag, "" when none is
image_family(base_image, base_tag) ==
    LET F == {k \in 1..Len(families) :
                 \/ Contains(lower(base_image), families[k])
                 \/ Contains(lower(base_tag), families[k])}
    IN  IF F = {} THEN "" ELSE families[Min(F)]

DefaultWorkdir == "/app"

\* group 1 of re.search(r"WORKDIR\s+([^\s]+)", t), DefaultWorkdir when no match
workdir_of(t) ==
    LET M == {i \in 1..Len(t) :
                 /\ StartsAt(t, "WORKDIR", i)
                 /\ i + 7 <= Len(t)
                 /\ Char(t, i + 7) \in Whitespace
                 /\ SkipWs(t, i + 7) <= Len(t)}
    IN  IF M = {} THEN DefaultWorkdir
        ELSE LET d == SkipWs(t, Min(M) + 7)
             IN  SubSeq(t, d, NextIn(t, d, Whitespace) - 1)

get_install_command(image_name) ==
    IF Contains(lower(image_name), "alpine")
    THEN "apk add --no-cache"
    ELSE "apt-get update && apt-get install -y --no-install-recommends"

get_cleanup_command(image_name) ==
    IF Contains(lower(image_name), "alpine")
    THEN "rm -rf /var/cache/apk/*"
    ELSE "rm -rf /var/lib/apt/lists/*"

AlpineUser == "RUN addgroup -S appgroup && adduser -S appuser -G appgroup"

DebianUser == "RUN groupadd -r appgroup && useradd -r -g appgroup appuser"

get_user_creation_command(image_name) ==
    IF Contains(lower(image_name), "alpine") THEN AlpineUser ELSE DebianUser

node_template(node_base, workdir, expose_port) ==
    "# Optimized Dockerfile with dev/prod environments\n"
    \o "# Usage:\n"
    \o "# Development: docker build --build-arg ENV=development -t myapp:dev .\n"
    \o "# Production: docker build --build-arg ENV=production -t myapp:prod .\n"
    \o "\n"
    \o "# Build stage\n"
    \o "FROM " \o node_base \o " AS builder\n"
    \o "ARG ENV=production\n"
    \o "WORKDIR " \o workdir \o "\n"
    \o "\n"
    \o "# Copy package files first for better caching\n"
    \o "COPY package*.json ./\n"
    \o "RUN if [ \"$ENV\" = \"development\" ]; then \\\n"
    \o "      npm install; \\\n"
    \o "    else \\\n"
    \o "      npm ci --only=production; \\\n"
    \o "    fi\n"
    \o "\n"
    \o "# Copy application code\n"
    \o "COPY . .\n"
    \o "\n"
    \o "# Build if needed (e.g., for TypeScript, Next.js, etc.)\n"
    \o "RUN if [ -f \"tsconfig.json\" ]; then \\\n"
    \o "      npm run build; \\\n"
    \o "    fi\n"
    \o "\n"
    \o "# Production stage (smaller image)\n"
    \o "FROM " \o node_base \o " AS production\n"
    \o "ARG ENV=production\n"
    \o "WORKDIR " \o workdir \o "\n"
    \o "ENV NODE_ENV=$ENV\n"
    \o "\n"
    \o "# Copy only necessary files from builder\n"
    \o "COPY --from=builder " \o workdir \o "/package*.json ./\n"
    \o "COPY --from=builder " \o workdir \o "/node_modules ./node_modules\n"
    \o "\n"
    \o "# For builds like Next.js, React, etc.\n"
    \o "COPY --from=builder " \o workdir \o "/.next ./.next 2>/dev/null || true\n"
    \o "COPY --from=builder " \o workdir \o "/build ./build 2>/dev/null || true\n"
    \o "COPY --from=builder " \o workdir \o "/dist ./dist 2>/dev/null || true\n"
    \o "\n"
    \o "# Add development tools if in dev environment\n"
    \o "RUN if [ \"$ENV\" = \"development\" ]; then \\\n"
    \o "      " \o get_install_command(node_base) \o " vim curl; \\\n"
    \o "    fi\n"
    \o "\n"
    \o "# Create non-root user for security\n"
    \o get_user_creation_command(node_base) \o "\n"
    \o "USER appuser\n"
    \o "\n"
    \o "# Expose port\n"
    \o "EXPOSE " \o expose_port \o "\n"
    \o "\n"
    \o "# Healthcheck\n"
    \o "HEALTHCHECK --interval=30s --timeout=5s --start-period=5s --retries=3 \\\n"
    \o "  CMD wget --no-verbose --tries=1 --spider http://localhost:" \o expose_port
    \o "/health || exit 1\n"
    \o "\n"
    \o "# Start the application\n"
    \o "CMD [\"npm\", \"start\"]\n"

python_template(python_base, workdir, expose_port) ==
    "# Optimized Dockerfile with dev/prod environments\n"
    \o "# Usage:\n"
    \o "# Development: docker build --build-arg ENV=development -t myapp:dev .\n"
    \o "# Production: docker build --build-arg ENV=production -t myapp:prod .\n"
    \o "\n"
    \o "# Build stage\n"
    \o "FROM " \o python_base \o " AS builder\n"
    \o "ARG ENV=production\n"
    \o "WORKDIR " \o workdir \o "\n"
    \o "\n"
    \o "# Install build dependencies\n"
    \o "RUN " \o get_install_command(python_base) \o " gcc \\\n"
    \o "    && " \o get_cleanup_command(python_base) \o "\n"
    \o "\n"
    \o "# Copy requirements first for better caching\n"
    \o "COPY requirements*.txt ./\n"
    \o "RUN if [ \"$ENV\" = \"development\" ] && [ -f \"requirements-dev.txt\" ]; then \\\n"
    \o "      pip install --no-cache-dir -r requirements-dev.txt; \\\n"
    \o "    else \\\n"
    \o "      pip install --no-cache-dir -r requirements.txt; \\\n"
    \o "    fi\n"
    \o "\n"
    \o "# Copy application code\n"
    \o "COPY . .\n"
    \o "\n"
    \o "# Production stage (smaller image)\n"
    \o "FROM " \o python_base \o " AS production\n"
    \o "ARG ENV=production\n"
    \o "WORKDIR " \o workdir \o "\n"
    \o "ENV PYTHONUNBUFFERED=1 \\\n"
    \o "    PYTHONDONTWRITEBYTECODE=1 \\\n"
    \o "    ENVIRONMENT=$ENV\n"
    \o "\n"
    \o "# Copy only necessary files from builder\n"
    \o "COPY --from=builder " \o workdir \o "/requirements.txt ./\n"
    \o "RUN pip install --no-cache-dir -r requirements.txt\n"
    \o "\n"
    \o "# Copy application code\n"
    \o "COPY --from=builder " \o workdir \o " ./\n"
    \o "\n"
    \o "# Add development tools if in dev environment\n"
    \o "RUN if [ \"$ENV\" = \"development\" ]; then \\\n"
    \o "      " \o get_install_command(python_base) \o " vim curl \\\n"
    \o "      && " \o get_cleanup_command(python_base) \o "; \\\n"
    \o "    fi\n"
    \o "\n"
    \o "# Create non-root user for security\n"
    \o get_user_creation_command(python_base) \o "\n"
    \o "USER appuser\n"
    \o "\n"
    \o "# Expose port\n"
    \o "EXPOSE " \o expose_port \o "\n"
    \o "\n"
    \o "# Healthcheck\n"
    \o "HEALTHCHECK --interval=30s --timeout=5s --start-period=5s --retries=3 \\\n"
    \o "  CMD curl --fail http://localhost:" \o expose_port \o "/health || exit 1\n"
    \o "\n"
    \o "# Start the application\n"
    \o "CMD [\"python\", \"app.py\"]\n"

generic_template(base_image, base_tag, workdir, expose_port) ==
    "# Optimized Dockerfile with dev/prod environments\n"
    \o "# Usage:\n"
    \o "# Development: docker build --build-arg ENV=development -t myapp:dev .\n"
    \o "# Production: docker build --build-arg ENV=production -t myapp:prod .\n"
    \o "\n"
    \o "# Build stage\n"
    \o "FROM " \o base_image \o (IF base_tag # "" THEN ":" \o base_tag ELSE "")
    \o " AS builder\n"
    \o "ARG ENV=production\n"
    \o "WORKDIR " \o workdir \o "\n"
    \o "\n"
    \o "# Copy application code\n"
    \o "COPY . .\n"
    \o "\n"
    \o "# Install dependencies based on environment\n"
    \o "RUN if [ \"$ENV\" = \"development\" ]; then \\\n"
    \o "      echo \"Installing development dependencies\"; \\\n"
    \o "    else \\\n"
    \o "      echo \"Installing production dependencies\"; \\\n"
    \o "    fi\n"
    \o "\n"
    \o "# Production stage\n"
    \o "FROM " \o base_image \o (IF base_tag # "" THEN ":" \o base_tag ELSE "")
    \o " AS production\n"
    \o "ARG ENV=production\n"
    \o "WORKDIR " \o workdir \o "\n"
    \o "\n"
    \o "# Copy from builder stage\n"
    \o "COPY --from=builder " \o workdir \o " ./\n"
    \o "\n"
    \o "# Add development tools if in dev environment\n"
    \o "RUN if [ \"$ENV\" = \"development\" ]; then \\\n"
    \o "      echo \"Installing development tools\"; \\\n"
    \o "    fi\n"
    \o "\n"
    \o "# Create non-root user for security\n"
    \o get_user_creation_command(base_image) \o "\n"
    \o "USER appuser\n"
    \o "\n"
    \o "# Expose port\n"
    \o "EXPOSE " \o expose_port \o "\n"
    \o "\n"
    \o "# Start the application\n"
    \o "CMD [\"echo\", \"Application started\"]\n"

\* node_base and python_base for the preference
preferred_bases(groups, preferred) ==
    IF preferred = "alpine"
    THEN [node |-> "node:16-alpine", python |-> "python:3.9-alpine"]
    ELSE IF preferred = "slim"
    THEN [node |-> "node:16-slim", python |-> "python:3.9-slim"]
    ELSE IF preferred = "full"
    THEN [node |-> "node:16", python |-> "python:3.9"]
    ELSE IF groups.matched
    THEN LET original_full == IF groups.tag # ""
                              THEN groups.image \o ":" \o groups.tag
                              ELSE groups.image
             family == image_family(groups.image, groups.tag)
         IN  [node   |-> IF family = "node" THEN original_full ELSE "node:16",
              python |-> IF family = "python" THEN original_full ELSE "python:3.9"]
    ELSE [node |-> "node:16", python |-> "python:3.9"]

generate_env_optimized_dockerfile(t, preferred) ==
    LET groups      == from_groups(t)
        base_image  == IF groups.matched THEN groups.image ELSE DefaultBaseImage
        base_tag    == IF groups.matched THEN groups.tag ELSE ""
        workdir     == workdir_of(t)
        expose_port == exposed_port(t)
        l           == lower(t)
        bases       == preferred_bases(groups, preferred)
    IN  IF ContainsAny(l, {"node", "npm", "yarn"})
        THEN node_template(bases.node, workdir, expose_port)
        ELSE IF ContainsAny(l, {"python", "pip"})
        THEN python_template(bases.python, workdir, expose_port)
        ELSE generic_template(base_image, base_tag, workdir, expose_port)

(***************************************************************************)
(* detect_hardcoded_secrets                                                *)
(***************************************************************************)
\* the regex class \w
WordSet == WordChars \ {".", "-"}

\* the regex class [a-zA-Z0-9+/]
Base64Set == (WordChars \ {".", "-", "_"}) \cup {"+", "/"}

Quotes == {"'", "\""}

\* secret_patterns, in order.  An "assign" pattern is its words, joined by
\* an optional - or _, then \s*=\s*, a quote, [^'"]+ and a quote.
secret_patterns ==
    << [kind |-> "assign", words |-> <<"password">>, type |-> "Password"],
       [kind |-> "assign", words |-> <<"passwd">>, type |-> "Password"],
       [kind |-> "assign", words |-> <<"pwd">>, type |-> "Password"],
       [kind |-> "assign", words |-> <<"secret">>, type |-> "Secret"],
       [kind |-> "assign", words |-> <<"token">>, type |-> "Token"],
       [kind |-> "assign", words |-> <<"api", "key">>, type |-> "API Key"],
       [kind |-> "assign", words |-> <<"auth", "token">>, type |-> "Auth Token"],
       [kind |-> "assign", words |-> <<"credentials">>, type |-> "Credentials"],
       [kind |-> "assign", words |-> <<"aws", "access", "key", "id">>,
        type |-> "AWS Access Key"],
       [kind |-> "assign", words |-> <<"aws", "secret", "access", "key">>,
        type |-> "AWS Secret Key"],
       [kind |-> "jdbc", words |-> <<>>, type |-> "Database Connection String"],
       [kind |-> "mongodb", words |-> <<>>, type |-> "MongoDB Connection String"],
       [kind |-> "base64", words |-> <<>>, type |-> "Base64 Encoded Value"] >>

\* the index after the words matched at i, 0 when they do not match there
RECURSIVE WordsEnd(_, _, _)
WordsEnd(l, words, i) ==
    IF ~StartsAt(l, words[1], i) THEN 0
    ELSE LET e == i + Len(words[1])
         IN  IF Len(words) = 1 THEN e
             ELSE IF e <= Len(l) /\ Char(l, e) \in {"-", "_"}
                  THEN WordsEnd(l, Tail(words), e + 1)
                  ELSE WordsEnd(l, Tail(words), e)

\* the index after the match of the pattern at i in the lower-cased text l
\* ((?i) is on every pattern), 0 when the pattern does not match at i
MinBase64 == 30

SecretMatchEnd(l, pattern, i) ==
    IF pattern.kind = "assign"
    THEN LET e == WordsEnd(l, pattern.words, i)
             eq == SkipWs(l, e)
             q == SkipWs(l, eq + 1)
             close == NextIn(l, q + 1, Quotes)
         IN  IF /\ e > 0
                /\ eq <= Len(l) /\ Char(l, eq) = "="
                /\ q <= Len(l) /\ Char(l, q) \in Quotes
                /\ close > q + 1 /\ close <= Len(l)
             THEN close + 1 ELSE 0
    ELSE IF pattern.kind = "jdbc"
    THEN LET nl == NextIn(l, i, {"\n"})
             P == {p \in (i + 5)..(nl - 10) :
                      StartsAt(l, "password=", p) /\ Char(l, p + 9) \in WordSet}
         IN  IF StartsAt(l, "jdbc:", i) /\ P # {}
             THEN NextIn(l, Max(P) + 9, {Char(l, j) : j \in 1..Len(l)} \ WordSet)
             ELSE 0
    ELSE IF pattern.kind = "mongodb"
    THEN LET colon == NextIn(l, i + 10, {":"})
             at == NextIn(l, colon + 1, {"@"})
         IN  IF /\ StartsAt(l, "mongodb://", i)
                /\ colon > i + 10 /\ colon <= Len(l)
                /\ at > colon + 1 /\ at <= Len(l)
             THEN at + 1 ELSE 0
    ELSE LET e == NextIn(l, i + 7, {Char(l, j) : j \in 1..Len(l)} \ Base64Set)
         IN  IF StartsAt(l, "base64:", i) /\ e - (i + 7) >= MinBase64
             THEN e ELSE 0

\* re.finditer(pattern, t) from index from on: the starts of the matches,
\* left to right, not overlapping
RECURSIVE finditer_starts(_, _, _)
finditer_starts(l, pattern, from) ==
    LET M == {i \in from..Len(l) : SecretMatchEnd(l, pattern, i) > 0}
    IN  IF M = {} THEN <<>>
        ELSE <<Min(M)>> \o finditer_starts(l, pattern, SecretMatchEnd(l, pattern, Min(M)))

\* t[:start].count("\n") + 1 for the match starting at index s
line_number(t, s) == Cardinality({j \in 1..(s - 1) : Char(t, j) = "\n"}) + 1

column_zero_based(t, s) ==
    LET N == {j \in 1..(s - 1) : Char(t, j) = "\n"}
    IN  (s - 1) - (IF N = {} THEN 0 ELSE Max(N))

\* match.start() - t.rfind("\n", 0, match.start()); rfind gives -1 when the
\* match is on the first line
column_of(t, s) ==
    LET N == {j \in 1..(s - 1) : Char(t, j) = "\n"}
    IN  (s - 1) - (IF N = {} THEN -1 ELSE Max(N) - 1)

finding_with_match(t, pattern, s) ==
    [line |-> line_number(t, s), type |-> pattern.type, column |-> column_of(t, s),
     match |-> SubSeq(t, s, SecretMatchEnd(lower(t), pattern, s) - 1)]

finding(t, pattern, s) ==
    [line |-> line_number(t, s), type |-> pattern.type, column |-> column_of(t, s)]

\* the findings of the patterns k..13, pattern by pattern
RECURSIVE findings_from(_, _)
findings_from(t, k) ==
    IF k > Len(secret_patterns) THEN <<>>
    ELSE LET starts == finditer_starts(lower(t), secret_patterns[k], 1)
         IN  [n \in 1..Len(starts) |-> finding(t, secret_patterns[k], starts[n])]
             \o findings_from(t, k + 1)

detect_hardcoded_secrets_once_per_line(t) ==
    LET all == findings_from(t, 1)
        kept == SelectSeq([n \in 1..Len(all) |-> [at |-> n, f |-> all[n]]],
                          LAMBDA x : \A m \in 1..(x.at - 1) : all[m].line # x.f.line)
    IN  [n \in 1..Len(kept) |-> kept[n].f] \o <<>>

detect_hardcoded_secrets(t) == findings_from(t, 1)

(***************************************************************************)
(* analyze_container_escape_risks                                          *)
(***************************************************************************)
sensitive_mounts ==
    <<"/proc", "/sys", "/var/run/docker.sock", "docker.sock", "/dev", "/var", "/etc">>

dangerous_caps == <<"CAP_SYS_ADMIN", "CAP_NET_ADMIN", "CAP_SYS_PTRACE">>

privileged_risk(t) ==
    IF Contains(t, "--privileged")
    THEN <<[severity |-> "CRITICAL",
            title |-> "Container running in privileged mode",
            description |-> "Privileged containers can escape isolation and access host resources.",
            recommendation |-> "Remove --privileged flag. Use more specific capabilities if needed."]>>
    ELSE <<>>

RECURSIVE mount_risks(_, _)
mount_risks(t, k) ==
    IF k > Len(sensitive_mounts) THEN <<>>
    ELSE LET mount == sensitive_mounts[k]
         IN  (IF Contains(t, "-v " \o mount) \/ Contains(t, "--volume " \o mount)
              THEN <<[severity |-> "HIGH",
                      title |-> "Mounting sensitive host path " \o mount,
                      description |-> "Mounting sensitive host paths can lead to container escapes.",
                      recommendation |-> "Avoid mounting " \o mount
                                         \o ". Use more restricted volumes."]>>
              ELSE <<>>)
             \o mount_risks(t, k + 1)

RECURSIVE capability_risks(_, _)
capability_risks(t, k) ==
    IF k > Len(dangerous_caps) THEN <<>>
    ELSE LET cap == dangerous_caps[k]
         IN  (IF Contains(t, "--cap-add=" \o cap) \/ Contains(t, "--cap-add " \o cap)
              THEN <<[severity |-> "HIGH",
                      title |-> "Adding dangerous capability " \o cap,
                      description |-> "This capability could be used to escape the container.",
                      recommendation |-> "Remove " \o cap
                                         \o " capability. Use more specific permissions."]>>
              ELSE <<>>)
             \o capability_risks(t, k + 1)

network_risk(t) ==
    IF Contains(t, "--network=host") \/ Contains(t, "--net=host")
    THEN <<[severity |-> "MEDIUM",
            title |-> "Using host network mode",
            description |-> "Host network mode bypasses container network isolation.",
            recommendation |-> "Use the default bridge network or create a custom network."]>>
    ELSE <<>>

analyze_container_escape_risks(t) ==
    privileged_risk(t) \o mount_risks(t, 1) \o capability_risks(t, 1) \o network_risk(t)

(***************************************************************************)
(* The input Dockerfiles                                                   *)
(***************************************************************************)
Fragments ==
    << "FROM node:16-alpine",
       "FROM golang:1.20 AS builder",
       "FROM golang:1.20\nCOPY --from=builder /app /app",
       "RUN curl http://x | bash",
       "RUN curl | bash",
       "WORKDIR /root",
       "USER app\nHEALTHCHECK CMD true",
       "FROM gcr.io/ubuntu:latest\nRUN apt-get upgrade\nRUN apt-get install -y vim",
       "RUN a\nRUN b\nRUN c\nRUN d",
       "COPY .dockerignore package.json ./\nCOPY . .",
       "RUN rm -rf /var/cache && apt-get clean",
       "ARG ENV=production\nADD dev.tar.gz /data" >>

RECURSIVE JoinLines(_)
JoinLines(ix) ==
    IF Len(ix) = 0 THEN ""
    ELSE IF Len(ix) = 1 THEN Fragments[ix[1]]
    ELSE Fragments[ix[1]] \o "\n" \o JoinLines(Tail(ix))

\* every text of at most MaxLines fragments, in any order, with repetition
Texts == {JoinLines(ix) : ix \in UNION {[1..n -> 1..Len(Fragments)] : n \in 0..MaxLines}}

\* every text main() can hold in dockerfile_text: as read, or with the
\* health check added
SeenTexts == Texts \cup {add_dockerfile_healthcheck(t) : t \in Texts}

\* the calls main() makes on dockerfile_text, evaluated once for each text
validation_of == [t \in SeenTexts |-> validate_dockerfile(t)]

healthcheck_added == [t \in Texts |-> add_dockerfile_healthcheck(t)]

BaseOptions == {"alpine", "slim", "full", "original"}

\* what the user may type at the base image prompt: nothing, a known option
\* in capitals, an unknown option
BaseInputs == {"", "ORIGINAL", "tiny"}

\* what the user may type at a y/n prompt
Answers == {"y", "n"}

\* what extract_optimized_dockerfile may find in the provider's answer:
\* nothing, or a Dockerfile
Extracted == {<<>>, <<"FROM alpine:3.19\nUSER app">>}

\* the first API key found in the environment
Providers == {"none", "gemini", "openai"}

(***************************************************************************)
(* State                                                                   *)
(***************************************************************************)
VARIABLES
    disk,             \* the files: the Dockerfile, its backup, .dockerignore, the report
    pc,               \* where main() is
    dockerfile_text,  \* main's dockerfile_text
    preferred_base,   \* main's preferred_base
    size_estimate,    \* <<>> or <<the result of enhanced_image_size_estimation>>
    time_estimate,    \* <<>> or <<the result of enhanced_build_time_estimation>>
    security_checks,  \* <<>> or <<the checklist>>
    env_analysis,     \* <<>> or <<the environment analysis>>
    cis_assessment,   \* <<>> or <<the benchmark assessment>>
    compliance,       \* <<>> or <<the compliance score printed>>
    validation,       \* <<>> or <<the result of validate_dockerfile>>
    optimized,        \* <<>> or <<the Dockerfile extracted from the provider's answer>>
    error,            \* the message of the exception main() caught, "" when none
    calls,            \* the engine functions executed so far, in order
    tie_up,           \* library calls: which way round() goes on a value halfway
                      \* between two tenths (a property of the value, not of the call)
    first,            \* <<>> or <<the first call made to the engine as a library>>
    last,             \* <<>> or <<the latest call made to the engine as a library>>
    disk_before       \* <<>> or <<the files as the run of main() found them>>

vars == <<disk, pc, dockerfile_text, preferred_base, size_estimate, time_estimate,
          security_checks, env_analysis, cis_assessment, compliance, validation,
          optimized, error, calls, tie_up, first, last, disk_before>>

\* the calls made to the engine outside main()
library == <<tie_up, first, last>>

results == <<size_estimate, time_estimate, security_checks, env_analysis,
             cis_assessment, compliance>>

\* the state main() starts in
Start ==
    /\ \/ \E t \in Texts : \E ignore \in BOOLEAN :
            disk = [exists |-> TRUE, dockerfile |-> t, backup |-> <<>>,
                    dockerignore |-> ignore, report |-> FALSE]
       \/ disk = [exists |-> FALSE, dockerfile |-> "", backup |-> <<>>,
                  dockerignore |-> FALSE, report |-> FALSE]
    /\ pc = "start"
    /\ dockerfile_text = ""
    /\ preferred_base = "original"
    /\ size_estimate = <<>>
    /\ time_estimate = <<>>
    /\ security_checks = <<>>
    /\ env_analysis = <<>>
    /\ cis_assessment = <<>>
    /\ compliance = <<>>
    /\ validation = <<>>
    /\ optimized = <<>>
    /\ error = ""
    /\ calls = <<>>
    /\ tie_up = FALSE
    /\ first = <<>>
    /\ last = <<>>

Init == Start /\ disk_before = <<>>

\* the same start, with the files kept as the run found them
RunInit == Start /\ disk_before = <<disk>>

(***************************************************************************)
(* main()                                                                  *)
(***************************************************************************)
\* the path is read; a missing file ends the run with exit(1)
ReadDockerfile ==
    /\ pc = "start"
    /\ UNCHANGED <<library, disk_before>>
    /\ IF disk.exists
       THEN /\ dockerfile_text' = disk.dockerfile
            /\ pc' = "base"
       ELSE /\ pc' = "exit"
            /\ UNCHANGED dockerfile_text
    /\ UNCHANGED <<disk, preferred_base, results, validation, optimized, error, calls>>

\* the base image preference: empty input and unknown options become 'original'
ChooseBase ==
    /\ pc = "base"
    /\ UNCHANGED <<library, disk_before>>
    /\ \E input \in BaseInputs :
          LET typed == IF input = "" THEN "original" ELSE lower(input)
          IN  preferred_base' = IF typed \in BaseOptions THEN typed ELSE "original"
    /\ pc' = "dockerignore"
    /\ UNCHANGED <<disk, dockerfile_text, results, validation, optimized, error, calls>>

\* generate_dockerignore(dirname, prompt_user=True)
GenerateDockerignore ==
    /\ pc = "dockerignore"
    /\ UNCHANGED <<library, disk_before>>
    /\ \E response \in Answers :
          disk' = IF ~disk.dockerignore /\ response = "y"
                  THEN [disk EXCEPT !.dockerignore = TRUE]
                  ELSE disk
    /\ pc' = "size"
    /\ UNCHANGED <<dockerfile_text, preferred_base, results, validation, optimized,
                   error, calls>>

EstimateSize ==
    /\ pc = "size"
    /\ UNCHANGED <<library, disk_before>>
    /\ \E tieUp \in BOOLEAN :
          size_estimate' = <<enhanced_image_size_estimation(dockerfile_text, tieUp)>>
    /\ calls' = Append(calls, "enhanced_image_size_estimation")
    /\ pc' = "time"
    /\ UNCHANGED <<disk, dockerfile_text, preferred_base, time_estimate, security_checks,
                   env_analysis, cis_assessment, compliance, validation, optimized, error>>

EstimateTime ==
    /\ pc = "time"
    /\ UNCHANGED <<library, disk_before>>
    /\ time_estimate' = <<enhanced_build_time_estimation(dockerfile_text)>>
    /\ calls' = Append(calls, "enhanced_build_time_estimation")
    /\ pc' = "checklist"
    /\ UNCHANGED <<disk, dockerfile_text, preferred_base, size_estimate, security_checks,
                   env_analysis, cis_assessment, compliance, validation, optimized, error>>

Checklist ==
    /\ pc = "checklist"
    /\ UNCHANGED <<library, disk_before>>
    /\ security_checks' = <<generate_security_checklist(dockerfile_text)>>
    /\ calls' = Append(calls, "generate_security_checklist")
    /\ pc' = "environment"
    /\ UNCHANGED <<disk, dockerfile_text, preferred_base, size_estimate, time_estimate,
                   env_analysis, cis_assessment, compliance, validation, optimized, error>>

EnvironmentAnalysis ==
    /\ pc = "environment"
    /\ UNCHANGED <<library, disk_before>>
    /\ env_analysis' = <<analyze_environment_differences(dockerfile_text)>>
    /\ calls' = Append(calls, "analyze_environment_differences")
    /\ pc' = "benchmark"
    /\ UNCHANGED <<disk, dockerfile_text, preferred_base, size_estimate, time_estimate,
                   security_checks, cis_assessment, compliance, validation, optimized, error>>

\* analyze_container_escape_risks (its findings are only printed), then the
\* benchmark assessment and the compliance score, then
\* detect_hardcoded_secrets (its findings are only printed)
Benchmark ==
    /\ pc = "benchmark"
    /\ UNCHANGED <<library, disk_before>>
    /\ cis_assessment' = <<cis_docker_benchmark_assessment(dockerfile_text)>>
    /\ compliance' = <<compliance_score(cis_docker_benchmark_assessment(dockerfile_text))>>
    /\ calls' = calls \o <<"analyze_container_escape_risks",
                           "cis_docker_benchmark_assessment",
                           "detect_hardcoded_secrets">>
    /\ pc' = "healthcheck"
    /\ UNCHANGED <<disk, dockerfile_text, preferred_base, size_estimate, time_estimate,
                   security_checks, env_analysis, validation, optimized, error>>

\* the healthcheck prompt, shown when the text has no HEALTHCHECK; on 'y' the
\* text is extended and written back, unless the write fails
HealthcheckPrompt ==
    /\ pc = "healthcheck"
    /\ UNCHANGED <<library, disk_before>>
    /\ IF Contains(dockerfile_text, "HEALTHCHECK")
       THEN UNCHANGED <<dockerfile_text, disk>>
       ELSE \E response \in Answers : \E written \in BOOLEAN :
               IF response = "y"
               THEN /\ dockerfile_text' = healthcheck_added[dockerfile_text]
                    /\ disk' = IF written
                               THEN [disk EXCEPT !.dockerfile =
                                        healthcheck_added[dockerfile_text]]
                               ELSE disk
               ELSE UNCHANGED <<dockerfile_text, disk>>
    /\ pc' = "report"
    /\ UNCHANGED <<preferred_base, results, validation, optimized, error, calls>>

\* the report prompt; generate_dockerfile_security_report runs the risk
\* scanner and the benchmark assessment again
ReportPrompt ==
    /\ pc = "report"
    /\ UNCHANGED <<library, disk_before>>
    /\ \E response \in Answers : \E written \in BOOLEAN :
          IF response = "y"
          THEN /\ calls' = calls \o <<"analyze_container_escape_risks",
                                      "cis_docker_benchmark_assessment">>
               /\ disk' = IF written THEN [disk EXCEPT !.report = TRUE] ELSE disk
          ELSE UNCHANGED <<calls, disk>>
    /\ pc' = "prompt"
    /\ UNCHANGED <<dockerfile_text, preferred_base, results, validation, optimized, error>>

\* enhance_generate_optimization_prompt: generate_optimization_prompt runs the
\* four estimators again, then the secret scanner runs
BuildPrompt ==
    /\ pc = "prompt"
    /\ UNCHANGED <<library, disk_before>>
    /\ calls' = calls \o <<"enhanced_image_size_estimation",
                           "enhanced_build_time_estimation",
                           "generate_security_checklist",
                           "analyze_environment_differences",
                           "detect_hardcoded_secrets">>
    /\ pc' = "optimize"
    /\ UNCHANGED <<disk, dockerfile_text, preferred_base, results, validation, optimized,
                   error>>

\* optimize_dockerfile(dockerfile_text, prompt): validation first; a failed
\* validation or a missing API key raises, main() catches and exits
OptimizeDockerfile ==
    /\ pc = "optimize"
    /\ UNCHANGED <<library, disk_before>>
    /\ validation' = <<validation_of[dockerfile_text]>>
    /\ calls' = Append(calls, "validate_dockerfile")
    /\ IF ~validation_of[dockerfile_text].valid
       THEN /\ error' = "Dockerfile validation failed"
            /\ pc' = "failed"
            /\ UNCHANGED optimized
       ELSE \E selected_provider \in Providers :
               IF selected_provider = "none"
               THEN /\ error' = "No valid API key found"
                    /\ pc' = "failed"
                    /\ UNCHANGED optimized
               ELSE /\ \E content \in Extracted : optimized' = content
                    /\ pc' = "apply"
                    /\ UNCHANGED error
    /\ UNCHANGED <<disk, dockerfile_text, preferred_base, results>>

\* display_summary_table, then apply_optimized_dockerfile when a Dockerfile
\* was extracted: on 'y' the backup is written, then the Dockerfile; a
\* failure of either write is caught inside
ApplyOptimized ==
    /\ pc = "apply"
    /\ UNCHANGED <<library, disk_before>>
    /\ IF optimized = <<>>
       THEN UNCHANGED disk
       ELSE \E response \in Answers : \E backed_up \in BOOLEAN : \E written \in BOOLEAN :
               disk' = apply_optimized_dockerfile(disk, optimized[1], response,
                                                  backed_up, written)
    /\ pc' = "scan"
    /\ UNCHANGED <<dockerfile_text, preferred_base, results, validation, optimized, error,
                   calls>>

\* the scanning prompt: on 'y' the Dockerfile on disk gets the comments
ScanPrompt ==
    /\ pc = "scan"
    /\ UNCHANGED <<library, disk_before>>
    /\ \E response \in Answers : \E written \in BOOLEAN :
          disk' = IF response = "y" /\ written
                  THEN [disk EXCEPT !.dockerfile = integrate_vulnerability_scanning(@)]
                  ELSE disk
    /\ pc' = "done"
    /\ UNCHANGED <<dockerfile_text, preferred_base, results, validation, optimized, error,
                   calls>>

Next ==
    \/ ReadDockerfile
    \/ ChooseBase
    \/ GenerateDockerignore
    \/ EstimateSize
    \/ EstimateTime
    \/ Checklist
    \/ EnvironmentAnalysis
    \/ Benchmark
    \/ HealthcheckPrompt
    \/ ReportPrompt
    \/ BuildPrompt
    \/ OptimizeDockerfile
    \/ ApplyOptimized
    \/ ScanPrompt

Spec == Init /\ [][Next]_vars

\* main() with the files it found remembered, for what a run has written
RunSpec == RunInit /\ [][Next]_vars

(***************************************************************************)
(* The engine called as a library, outside main()                          *)
(***************************************************************************)
\* The texts the engine functions are called on, by what they exercise.
\* The order of the copy instructions:
CopyOrderTexts ==
    { "COPY . .",
      "COPY package.json ./\nCOPY . .",
      "COPY . .\nCOPY requirements.txt ./" }

\* the letter case of the FROM keyword:
FromCaseTexts == {"FROM alpine:3.16", "from alpine:3.16"}

\* the letter case of the HEALTHCHECK keyword:
HealthcheckTexts == {"HEALTHCHECK CMD true", "healthcheck cmd true", "CMD true"}

\* assignments of secrets:
SecretTexts ==
    { "password = \"abc123\"",
      "password = \"xyz789\"",
      "auth_token = \"x\"",
      "ENV a=b\n  pwd='x' token='y'",
      "pwd=\"mongodb://a:b@\"",
      "pwd=\"mongodbx//axbx\"" }

\* the application types and base images of the templates:
TemplateTexts ==
    { "FROM node:16-alpine\nEXPOSE 3000",
      "FROM python:3.9-slim\nWORKDIR /srv",
      "FROM golang:1.20-alpine",
      "FROM golang:1.20" }

\* one more instruction at the end:
AppendedTexts == {t \o "\nUSER app" : t \in FromCaseTexts \cup HealthcheckTexts}

\* COPY and ADD as instructions, in a comment, in an argument:
InstructionTexts ==
    { "COPY a b\nCOPY c d",
      "ADD https://x/a.tar /a\nADD a.zip /a\nADD a /a",
      "# COPY the files\nCOPY a b",
      "CMD echo ADD a" }

\* the smallest base image, and no text at all:
MinimalTexts == {"FROM scratch", ""}

\* the instructions that start the container:
CommandTexts == {"ENTRYPOINT a\nCMD b", "EXPOSE 3000\nCMD node app.js"}

\* flags of docker run:
RiskTexts ==
    { "", "docker run --privileged -v /var/run/docker.sock", "--net=host",
      "docker run -v /etc:/host" }

main_vars == <<disk, pc, dockerfile_text, preferred_base, results, validation,
               optimized, error, calls>>

LibraryInit ==
    /\ disk = [exists |-> FALSE, dockerfile |-> "", backup |-> <<>>,
               dockerignore |-> FALSE, report |-> FALSE]
    /\ pc = "library"
    /\ dockerfile_text = ""
    /\ preferred_base = "original"
    /\ size_estimate = <<>>
    /\ time_estimate = <<>>
    /\ security_checks = <<>>
    /\ env_analysis = <<>>
    /\ cis_assessment = <<>>
    /\ compliance = <<>>
    /\ validation = <<>>
    /\ optimized = <<>>
    /\ error = ""
    /\ calls = <<>>
    /\ tie_up \in BOOLEAN
    /\ first = <<>>
    /\ last = <<>>
    /\ disk_before = <<>>

\* the latest library call was made to fn
Called(fn) == last # <<>> /\ last[1].fn = fn

\* one call: the function, its arguments and what it returned
Call(fn, t, base, result) ==
    /\ last' = <<[fn |-> fn, text |-> t, base |-> base, result |-> result]>>
    /\ first' = IF first = <<>> THEN last' ELSE first
    /\ UNCHANGED <<main_vars, tie_up, disk_before>>

\* what each function of the engine returns for each text the calls below
\* pass to it, evaluated once
returned ==
    [t \in UNION {CopyOrderTexts, FromCaseTexts, HealthcheckTexts, SecretTexts,
                  TemplateTexts, AppendedTexts, InstructionTexts, MinimalTexts,
                  CommandTexts, RiskTexts} |->
        [enhanced_image_size_estimation |->
             [tie \in BOOLEAN |-> enhanced_image_size_estimation(t, tie)],
         enhanced_build_time_estimation |-> enhanced_build_time_estimation(t),
         generate_security_checklist |-> generate_security_checklist(t),
         analyze_environment_differences |-> analyze_environment_differences(t),
         cis_docker_benchmark_assessment |-> cis_docker_benchmark_assessment(t),
         detect_hardcoded_secrets |-> detect_hardcoded_secrets(t),
         analyze_container_escape_risks |-> analyze_container_escape_risks(t),
         generate_env_optimized_dockerfile |->
             [base \in BaseOptions |-> generate_env_optimized_dockerfile(t, base)],
         add_dockerfile_healthcheck |-> add_dockerfile_healthcheck(t)]]

CallSize ==
    /\ pc = "library"
    /\ \E t \in FromCaseTexts \cup TemplateTexts \cup MinimalTexts :
            Call("enhanced_image_size_estimation", t, "original",
                 returned[t].enhanced_image_size_estimation[tie_up])

CallTime ==
    /\ pc = "library"
    /\ \E t \in CopyOrderTexts \cup FromCaseTexts \cup InstructionTexts \cup MinimalTexts :
            Call("enhanced_build_time_estimation", t, "original",
                 returned[t].enhanced_build_time_estimation)

CallChecklist ==
    /\ pc = "library"
    /\ \E t \in FromCaseTexts \cup HealthcheckTexts \cup AppendedTexts :
            Call("generate_security_checklist", t, "original",
                 returned[t].generate_security_checklist)

CallEnvironment ==
    /\ pc = "library"
    /\ \E t \in FromCaseTexts \cup TemplateTexts :
            Call("analyze_environment_differences", t, "original",
                 returned[t].analyze_environment_differences)

CallBenchmark_on_shared_lists ==
    /\ pc = "library"
    /\ \E t \in FromCaseTexts \cup HealthcheckTexts :
            LET fresh == returned[t].cis_docker_benchmark_assessment
                kept  == IF Called("cis_docker_benchmark_assessment")
                         THEN last[1].result
                         ELSE [passed |-> <<>>, failed |-> <<>>, skipped |-> <<>>]
            IN  Call("cis_docker_benchmark_assessment", t, "original",
                     [passed  |-> kept.passed \o fresh.passed,
                      failed  |-> kept.failed \o fresh.failed,
                      skipped |-> kept.skipped \o fresh.skipped])

CallBenchmark ==
    /\ pc = "library"
    /\ \E t \in FromCaseTexts \cup HealthcheckTexts :
            Call("cis_docker_benchmark_assessment", t, "original",
                 returned[t].cis_docker_benchmark_assessment)

CallSecrets ==
    /\ pc = "library"
    /\ \E t \in SecretTexts :
            Call("detect_hardcoded_secrets", t, "original",
                 returned[t].detect_hardcoded_secrets)

CallRisks ==
    /\ pc = "library"
    /\ \E t \in RiskTexts :
            Call("analyze_container_escape_risks", t, "original",
                 returned[t].analyze_container_escape_risks)

CallTemplate ==
    /\ pc = "library"
    /\ \E t \in FromCaseTexts \cup TemplateTexts : \E base \in BaseOptions :
            Call("generate_env_optimized_dockerfile", t, base,
                 returned[t].generate_env_optimized_dockerfile[base])

CallHealthcheck ==
    /\ pc = "library"
    /\ \E t \in HealthcheckTexts \cup CommandTexts :
            Call("add_dockerfile_healthcheck", t, "original",
                 returned[t].add_dockerfile_healthcheck)

LibraryNext ==
    \/ CallSize
    \/ CallTime
    \/ CallChecklist
    \/ CallEnvironment
    \/ CallBenchmark
    \/ CallSecrets
    \/ CallRisks
    \/ CallTemplate
    \/ CallHealthcheck

LibrarySpec == LibraryInit /\ [][LibraryNext]_vars

(***************************************************************************)
(* Properties                                                              *)
(***************************************************************************)
Estimators ==
    {"enhanced_image_size_estimation", "enhanced_build_time_estimation",
     "generate_security_checklist", "analyze_environment_differences",
     "cis_docker_benchmark_assessment"}

ValidationFailed == pc = "failed" /\ error = "Dockerfile validation failed"

\* C1: a run of main() that ends with a validation failure has executed none
\* of the estimators (size, time, checklist, environment, benchmark).
C1_NoEstimationBeforeValidation ==
    ValidationFailed => \A i \in 1..Len(calls) : calls[i] \notin Estimators

\* t holds a curl command piped to bash on one line, arguments in between or not
PipedToBash(t) ==
    \E i \in Occurrences(lower(t), "curl") : \E j \in Occurrences(lower(t), "| bash") :
        i < j /\ ~Contains(SubSeq(t, i, j), "\n")

\* C2: every text with a curl command piped to bash is invalid and its
\* critical issues hold the insecure pipe installation issue.
C2_PipeInstallRejected ==
    (validation # <<>> /\ PipedToBash(dockerfile_text)) =>
        /\ ~validation[1].valid
        /\ \E i \in 1..Len(validation[1].issues.critical) :
              validation[1].issues.critical[i] = CriticalPipe

\* the two patterns validate_dockerfile treats as critical
CriticalPattern(t) ==
    \/ Contains(lower(t), "curl | bash")
    \/ Contains(lower(t), "root") /\ ~Contains(lower(t), "user ")

\* the texts main() can validate, by whether they hold a critical pattern
critical_pattern == [t \in SeenTexts |-> CriticalPattern(t)]

\* C3: validation succeeds exactly when the critical list is empty, and a
\* text with neither critical pattern is valid and does not end main() with
\* the validation error, whatever its warnings.  Stated where
\* optimize_dockerfile returns or raises; the result is not changed later.
C3_WarningsAreAdvisory ==
    (validation # <<>> /\ pc \in {"apply", "failed"}) =>
        /\ validation[1].valid <=> (validation[1].issues.critical = <<>>)
        /\ ~critical_pattern[dockerfile_text] =>
              validation[1].valid /\ ~ValidationFailed

\* a text with all three warnings passed validation
C3_Witness ==
    /\ validation # <<>>
    /\ Len(validation[1].issues.warnings) = 3
    /\ validation[1].valid
    /\ pc = "apply"

BenchmarkIds == {"4.1", "4.2", "4.3", "4.4", "4.5", "4.6", "4.7", "4.8", "4.9", "4.10", "4.11"}

AllItems(a) == a.passed \o a.failed \o a.skipped

\* C4: the benchmark assessment holds exactly 11 items over its three lists,
\* their ids are 4.1 .. 4.11, none repeated, so each id is in exactly one list.
C4_ElevenItemsPartitioned ==
    cis_assessment # <<>> =>
        LET items == AllItems(cis_assessment[1])
        IN  /\ Len(items) = 11
            /\ {items[i].id : i \in 1..Len(items)} = BenchmarkIds
            /\ \A i, j \in 1..Len(items) : items[i].id = items[j].id => i = j

\* an assessment with items in all three lists, 4.2 among the passed
C4_Witness ==
    /\ cis_assessment # <<>>
    /\ Len(cis_assessment[1].passed) > 4
    /\ Len(cis_assessment[1].failed) > 0
    /\ Len(cis_assessment[1].skipped) > 0
    /\ \E i \in 1..Len(cis_assessment[1].passed) : cis_assessment[1].passed[i].id = "4.2"

\* C5 as stated: the compliance score is 100 * passed / (passed + failed)
\* rounded to the nearest integer, i.e. at most one half away from it.
C5_ScoreRounded ==
    (cis_assessment # <<>> /\ compliance # <<>> /\ compliance[1] # NoScore) =>
        LET p == Len(cis_assessment[1].passed)
            n == Len(cis_assessment[1].passed) + Len(cis_assessment[1].failed)
            d == 100 * p - compliance[1] * n
        IN  2 * d <= n /\ -2 * d <= n

\* C5 amended: the compliance score is 100 * passed / (passed + failed)
\* truncated to an integer, skipped items left out of the denominator.
C5_ScoreTruncated ==
    (cis_assessment # <<>> /\ compliance # <<>>) =>
        LET p == Len(cis_assessment[1].passed)
            n == Len(cis_assessment[1].passed) + Len(cis_assessment[1].failed)
        IN  n > 0 => /\ compliance[1] * n <= 100 * p
                     /\ 100 * p < (compliance[1] + 1) * n

\* a score whose fraction is above one half was truncated, with skipped items
C5_Witness ==
    /\ cis_assessment # <<>>
    /\ compliance # <<>>
    /\ Len(cis_assessment[1].skipped) > 0
    /\ LET p == Len(cis_assessment[1].passed)
           n == Len(cis_assessment[1].passed) + Len(cis_assessment[1].failed)
       IN  n > 0 /\ 2 * ((100 * p) % n) > n

\* C6: both sides of the environment analysis list at least 2 features.
C6_AtLeastTwoFeatures ==
    env_analysis # <<>> =>
        /\ Len(env_analysis[1].development.features) >= 2
        /\ Len(env_analysis[1].production.features) >= 2

NodeAlpineExample == "FROM node:16-alpine"

\* C7: for the text FROM node:16-alpine the original size is 0.6 GB and the
\* original time is 30 seconds.
C7_NodeAlpineExample ==
    (dockerfile_text = NodeAlpineExample /\ size_estimate # <<>> /\ time_estimate # <<>>) =>
        /\ size_estimate[1].original_size = 600
        /\ time_estimate[1].original_time = 30

\* C8 as stated: without multi-stage the optimized time is never below 80%
\* of the original time.
C8_ReductionCapped ==
    (time_estimate # <<>> /\ ~time_estimate[1].multi_stage) =>
        time_estimate[1].optimized_time >= (time_estimate[1].original_time * 8) \div 10

\* C8 amended: without multi-stage the reduction is at least 20%: the
\* optimized time is never above 80% of the original time, truncated.
C8_ReductionAtLeast20 ==
    (time_estimate # <<>> /\ ~time_estimate[1].multi_stage) =>
        time_estimate[1].optimized_time <= (time_estimate[1].original_time * 8) \div 10

\* a single-stage text whose rules accumulate less than 20%
C8_Witness ==
    /\ time_estimate # <<>>
    /\ ~time_estimate[1].multi_stage
    /\ time_estimate[1].reduction < 20
    /\ time_estimate[1].original_time > BaseTime
    /\ time_estimate[1].optimized_time = (time_estimate[1].original_time * 8) \div 10

GolangExample ==
    "FROM golang:1.20 AS builder\nFROM golang:1.20\nCOPY --from=builder /app /app"

\* the reduction in percent computed from a returned pair, truncated
ReturnedReduction(s) == ((s.original_size - s.optimized_size) * 100) \div s.original_size

\* C9 as stated: for multi-stage text the reduction computed from the
\* returned pair is 60% with a COPY --from and 40% without.
C9_ReturnedReduction ==
    (size_estimate # <<>> /\ size_estimate[1].multi_stage) =>
        ReturnedReduction(size_estimate[1]) = IF size_estimate[1].copy_from THEN 60 ELSE 40

\* C9 amended: for multi-stage text the optimized size before rounding is
\* 40% of the original size before rounding with a COPY --from and 60% of it
\* without; the golang example is multi-stage with a COPY --from and returns
\* the rounded pair (1.4, 0.6).
C9_MultiStageReduction ==
    /\ (size_estimate # <<>> /\ size_estimate[1].multi_stage) =>
          /\ size_estimate[1].copy_from =>
                10 * size_estimate[1].optimized_raw = 4 * size_estimate[1].original_raw
          /\ ~size_estimate[1].copy_from =>
                10 * size_estimate[1].optimized_raw = 6 * size_estimate[1].original_raw
    /\ (size_estimate # <<>> /\ dockerfile_text = GolangExample) =>
          /\ size_estimate[1].multi_stage
          /\ size_estimate[1].copy_from
          /\ size_estimate[1].original_size = 1400
          /\ size_estimate[1].optimized_size = 600

\* the size of the golang example was estimated
C9_Witness == size_estimate # <<>> /\ dockerfile_text = GolangExample

\* C10: without multi-stage the optimized size before rounding is exactly
\* 70% of the original size, whichever reductions were accumulated.
C10_AlwaysSeventyPercent ==
    (size_estimate # <<>> /\ ~size_estimate[1].multi_stage) =>
        10 * size_estimate[1].optimized_raw = 7 * size_estimate[1].original_raw

\* a single-stage text that accumulated both reductions
C10_Witness ==
    /\ size_estimate # <<>>
    /\ ~size_estimate[1].multi_stage
    /\ size_estimate[1].reduction = CacheReduction + LayerReduction

\* a dependency manifest is copied before the first full-context copy
ManifestBeforeCopy(t) ==
    LET l == lower(t)
    IN  \E m \in {"requirements.txt", "package.json"} :
            /\ Contains(l, m)
            /\ Contains(l, "copy . .")
            /\ find(l, m) < find(l, "copy . .")

\* C11: for single-stage text the 15% reordering reduction is accumulated
\* exactly when no dependency manifest occurs before the first full-context
\* copy, also when the text has the copy and no manifest at all.
C11_ReorderWhenNoManifestFirst ==
    Called("enhanced_build_time_estimation") /\ ~last[1].result.multi_stage
        => (last[1].result.reordered <=> ~ManifestBeforeCopy(last[1].text))

\* the first and the latest library call were made to fn, with the same
\* base preference
BothCalled(fn) ==
    /\ first # <<>> /\ last # <<>>
    /\ first[1].fn = fn /\ last[1].fn = fn
    /\ first[1].base = last[1].base

\* a and b differ only in the letter case of one FROM keyword
DifferInFromCase(a, b) ==
    /\ Len(a) = Len(b)
    /\ a # b
    /\ \E i \in 1..(Len(a) - 3) :
          /\ lower(SubSeq(a, i, i + 3)) = "from"
          /\ lower(SubSeq(b, i, i + 3)) = "from"
          /\ SubSeq(a, 1, i - 1) = SubSeq(b, 1, i - 1)
          /\ SubSeq(a, i + 4, Len(a)) = SubSeq(b, i + 4, Len(b))

\* C12: two texts that differ only in the letter case of the FROM keyword get
\* the same base size from the size estimator and the same base image in the
\* FROM lines of the template synthesizer.
C12_FromCaseInsensitive ==
    /\ BothCalled("enhanced_image_size_estimation")
       /\ DifferInFromCase(first[1].text, last[1].text)
          => first[1].result.base = last[1].result.base
    /\ BothCalled("generate_env_optimized_dockerfile")
       /\ DifferInFromCase(first[1].text, last[1].text)
          => from_groups(first[1].result) = from_groups(last[1].result)

\* the ids of a list of benchmark items
IdsOf(items) == {items[k].id : k \in 1..Len(items)}

\* C13: for text with no HEALTHCHECK substring (case-sensitive) the checklist
\* entry "Healthcheck configured" is false and benchmark item 4.6 is failed;
\* the checklist and the benchmark never disagree on the same text.
C13_HealthcheckAgree ==
    /\ Called("generate_security_checklist") /\ ~Contains(last[1].text, "HEALTHCHECK")
          => ~last[1].result["Healthcheck configured"]
    /\ Called("cis_docker_benchmark_assessment") /\ ~Contains(last[1].text, "HEALTHCHECK")
          => "4.6" \in IdsOf(last[1].result.failed)
    /\ (/\ first # <<>>
        /\ first[1].fn = "generate_security_checklist"
        /\ Called("cis_docker_benchmark_assessment")
        /\ first[1].text = last[1].text)
          => (first[1].result["Healthcheck configured"]
                <=> "4.6" \in IdsOf(last[1].result.passed))

\* the starts of the matches of pattern k in t, as a set
MatchStarts(t, k) ==
    LET starts == finditer_starts(lower(t), secret_patterns[k], 1)
    IN  {starts[n] : n \in 1..Len(starts)}

\* every match of every pattern: <<pattern, start>>
AllMatches(t) ==
    UNION {{<<k, s>> : s \in MatchStarts(t, k)} : k \in 1..Len(secret_patterns)}

\* the first index of the line that holds index s
LineStart(t, s) == Min({i \in 1..s : \A j \in i..(s - 1) : Char(t, j) # "\n"})

\* what is reported for the match m: the line counted from 1, the type of
\* the pattern, the offset in the line counted from 1
Reported(t, m) ==
    [line   |-> 1 + Cardinality({j \in 1..(m[2] - 1) : Char(t, j) = "\n"}),
     type   |-> secret_patterns[m[1]].type,
     column |-> m[2] - LineStart(t, m[2]) + 1]

\* C14: every finding is a match reported with line = 1 + the newlines before
\* the match start and column = the 1-based offset of the start in its line
\* (column >= 1); `password = "abc123"` gives one finding, Password, line 1.
C14_LineAndColumn ==
    Called("detect_hardcoded_secrets") =>
        LET matches == AllMatches(last[1].text)
        IN
        /\ \A n \in 1..Len(last[1].result) :
              /\ \E m \in matches : last[1].result[n] = Reported(last[1].text, m)
              /\ last[1].result[n].column >= 1
        /\ \A m \in matches :
              \E n \in 1..Len(last[1].result) :
                  last[1].result[n] = Reported(last[1].text, m)
        /\ last[1].text = "password = \"abc123\""
              => /\ Len(last[1].result) = 1
                 /\ last[1].result[1].type = "Password"
                 /\ last[1].result[1].line = 1

\* a finding on the second line, behind two blanks
C14_Witness ==
    /\ Called("detect_hardcoded_secrets")
    /\ \E n \in 1..Len(last[1].result) :
          last[1].result[n] = [line |-> 2, type |-> "Password", column |-> 3]

\* the place of the match m among all matches, by pattern, then by position
Rank(matches, m) ==
    1 + Cardinality({o \in matches : o[1] < m[1] \/ (o[1] = m[1] /\ o[2] < m[2])})

\* C15: nothing is deduplicated: there is one finding per match of each of
\* the 13 patterns, in the order of the patterns and then of the positions;
\* `auth_token = "x"` gives a Token and an Auth Token finding.
C15_NoDeduplication ==
    Called("detect_hardcoded_secrets") =>
        LET matches == AllMatches(last[1].text)
        IN
        /\ Len(secret_patterns) = 13
        /\ Len(last[1].result) = Cardinality(matches)
        /\ \A m \in matches :
              last[1].result[Rank(matches, m)] = Reported(last[1].text, m)
        /\ last[1].text = "auth_token = \"x\""
              => last[1].result = <<[line |-> 1, type |-> "Token", column |-> 6],
                                    [line |-> 1, type |-> "Auth Token", column |-> 1]>>

\* two findings for one assignment
C15_Witness ==
    /\ Called("detect_hardcoded_secrets")
    /\ last[1].text = "auth_token = \"x\""
    /\ Len(last[1].result) = 2
    /\ last[1].result[1].line = last[1].result[2].line

\* the values of the assignments matched in t: <<first index, last index>>,
\* between the quote after the = sign and the quote that ends the match
SecretValues(t) ==
    LET l == lower(t)
        M == {m \in (1..Len(secret_patterns)) \X (1..Len(t)) :
                 /\ secret_patterns[m[1]].kind = "assign"
                 /\ SecretMatchEnd(l, secret_patterns[m[1]], m[2]) > 0}
    IN  {<<SkipWs(l, SkipWs(l, WordsEnd(l, secret_patterns[m[1]].words, m[2])) + 1) + 1,
           SecretMatchEnd(l, secret_patterns[m[1]], m[2]) - 2>> : m \in M}

\* a and b differ only inside one matched secret value, same place and length
DifferInSecretValue(a, b) ==
    /\ Len(a) = Len(b)
    /\ a # b
    /\ \E r \in SecretValues(a) \cap SecretValues(b) :
          /\ SubSeq(a, 1, r[1] - 1) = SubSeq(b, 1, r[1] - 1)
          /\ SubSeq(a, r[2] + 1, Len(a)) = SubSeq(b, r[2] + 1, Len(b))

FindingFields == {"line", "type", "column"}

\* C16: every finding holds exactly line, type and column, and two texts that
\* differ only in the characters of a matched secret value give the same
\* findings.
C16_ValueIndependent ==
    /\ Called("detect_hardcoded_secrets")
          => \A n \in 1..Len(last[1].result) : DOMAIN last[1].result[n] = FindingFields
    /\ BothCalled("detect_hardcoded_secrets")
       /\ DifferInSecretValue(first[1].text, last[1].text)
          => first[1].result = last[1].result

Alphanumeric == WordSet \ {"_"}

\* a and b differ only inside one matched secret value made of letters and
\* digits in both
DifferInPlainSecretValue(a, b) ==
    /\ Len(a) = Len(b)
    /\ a # b
    /\ \E r \in SecretValues(a) \cap SecretValues(b) :
          /\ SubSeq(a, 1, r[1] - 1) = SubSeq(b, 1, r[1] - 1)
          /\ SubSeq(a, r[2] + 1, Len(a)) = SubSeq(b, r[2] + 1, Len(b))
          /\ \A j \in r[1]..r[2] : Char(a, j) \in Alphanumeric /\ Char(b, j) \in Alphanumeric

\* C16, amended: every finding holds exactly line, type and column, and two
\* texts that differ only in the characters of a matched secret value give
\* the same findings when both values are made of letters and digits (a value
\* that holds a newline, or text one of the other patterns matches, shows in
\* the findings).
C16_PlainValueIndependent ==
    /\ Called("detect_hardcoded_secrets")
          => \A n \in 1..Len(last[1].result) : DOMAIN last[1].result[n] = FindingFields
    /\ BothCalled("detect_hardcoded_secrets")
       /\ DifferInPlainSecretValue(first[1].text, last[1].text)
          => first[1].result = last[1].result

\* two passwords of six letters and digits at the same place
C16_Witness ==
    /\ BothCalled("detect_hardcoded_secrets")
    /\ DifferInPlainSecretValue(first[1].text, last[1].text)
    /\ Len(last[1].result) = 1

\* C17: every synthesized build file has a builder stage and a production
\* stage, a user creation step followed by USER appuser, an EXPOSE
\* instruction and a HEALTHCHECK instruction.
C17_TemplateComplete ==
    Called("generate_env_optimized_dockerfile") =>
        /\ Contains(last[1].result, " AS builder\n")
        /\ Contains(last[1].result, " AS production\n")
        /\ \/ Contains(last[1].result, AlpineUser \o "\nUSER appuser\n")
           \/ Contains(last[1].result, DebianUser \o "\nUSER appuser\n")
        /\ Contains(last[1].result, "\nEXPOSE ")
        /\ Contains(last[1].result, "\nHEALTHCHECK ")

\* C18: the user creation command of a synthesized build file has the alpine
\* syntax exactly when the image or the tag of its own FROM lines holds
\* 'alpine', the debian syntax otherwise.
C18_UserCommandMatchesBase ==
    Called("generate_env_optimized_dockerfile") =>
        LET written == from_groups(last[1].result)
            alpine  == \/ Contains(lower(written.image), "alpine")
                       \/ Contains(lower(written.tag), "alpine")
        IN  /\ written.matched
            /\ alpine <=> Contains(last[1].result, AlpineUser)
            /\ ~alpine <=> Contains(last[1].result, DebianUser)

NonRootKey == "Non-root user configured"

\* C19: appending the line USER app leaves every checklist entry but
\* "Non-root user configured" unchanged, and the checklist always has the
\* same 7 keys.
C19_OnlyNonRootChanges ==
    /\ Called("generate_security_checklist")
          => /\ DOMAIN last[1].result = ChecklistKeys
             /\ Cardinality(DOMAIN last[1].result) = 7
    /\ BothCalled("generate_security_checklist")
       /\ last[1].text = first[1].text \o "\nUSER app"
          => \A key \in ChecklistKeys \ {NonRootKey} :
                last[1].result[key] = first[1].result[key]

\* the entry changes from false to true
C19_Witness ==
    /\ BothCalled("generate_security_checklist")
    /\ last[1].text = first[1].text \o "\nUSER app"
    /\ ~first[1].result[NonRootKey]
    /\ last[1].result[NonRootKey]

\* the first and the latest call have the same function and arguments
SameCall ==
    /\ first # <<>> /\ last # <<>>
    /\ first[1].fn = last[1].fn
    /\ first[1].text = last[1].text
    /\ first[1].base = last[1].base

Severities == {"CRITICAL", "HIGH", "MEDIUM", "LOW"}

\* the severity each id is given, wherever the item is appended
SeverityOfId ==
    [id \in BenchmarkIds |->
        CASE id \in {"4.10"} -> "CRITICAL"
          [] id \in {"4.1", "4.4", "4.8"} -> "HIGH"
          [] id \in {"4.7", "4.9"} -> "LOW"
          [] OTHER -> "MEDIUM"]

\* C21: every item of the benchmark assessment has a severity field whose
\* value is CRITICAL, HIGH, MEDIUM or LOW, and the severity of an id is the
\* same in passed, failed and skipped, so the failed items the implementation
\* timeline reads all have one.  Stated where the assessment returns; it is
\* not changed later.
C21_SeverityOnEveryItem ==
    (cis_assessment # <<>> /\ pc = "healthcheck") =>
        LET items == AllItems(cis_assessment[1])
        IN  \A i \in 1..Len(items) :
               /\ "severity" \in DOMAIN items[i]
               /\ items[i].severity \in Severities
               /\ items[i].severity = SeverityOfId[items[i].id]

\* HIGH items in all three lists, and a failed item of another severity
C21_Witness ==
    /\ cis_assessment # <<>>
    /\ pc = "healthcheck"
    /\ \E i \in 1..Len(cis_assessment[1].passed) :
          cis_assessment[1].passed[i] = [id |-> "4.1", severity |-> "HIGH"]
    /\ \E i \in 1..Len(cis_assessment[1].skipped) :
          cis_assessment[1].skipped[i] = [id |-> "4.8", severity |-> "HIGH"]
    /\ \E i \in 1..Len(cis_assessment[1].failed) :
          cis_assessment[1].failed[i] = [id |-> "4.4", severity |-> "HIGH"]
    /\ \E i \in 1..Len(cis_assessment[1].failed) :
          cis_assessment[1].failed[i].severity = "MEDIUM"

\* the first indexes of the lines of t
LineStarts(t) == {i \in 1..Len(t) : i = 1 \/ Char(t, i - 1) = "\n"}

\* the arguments of the instructions kw of t: a line that starts with the
\* keyword and a blank, from behind the blank to the end of the line
Instructions(t, kw) ==
    LET at == {i \in LineStarts(t) : StartsAt(t, kw \o " ", i)}
    IN  {<<i, SubSeq(t, i + Len(kw) + 1, NextIn(t, i, {"\n"}) - 1)>> : i \in at}

\* what an ADD instruction with the arguments a adds: 15 for a remote URL,
\* else 10 for an archive, else 5
AddSeconds(a) ==
    CASE Contains(a, "http://") \/ Contains(a, "https://") -> 15
      [] OTHER -> IF \E e \in {".tar", ".gz", ".zip"} : Contains(a, e) THEN 10 ELSE 5

RECURSIVE SumOver(_, _)
SumOver(S, f) ==
    IF S = {} THEN 0
    ELSE LET x == CHOOSE y \in S : TRUE IN f[x] + SumOver(S \ {x}, f)

\* C22: for text without RUN the original time is 30 seconds, plus 5 for
\* every COPY instruction, plus 15, 10 or 5 for every ADD instruction; the
\* words COPY and ADD elsewhere (in a comment, in an argument) add nothing.
C22_OnlyInstructionsCount ==
    (Called("enhanced_build_time_estimation") /\ ~Contains(last[1].text, "RUN")) =>
        LET adds == Instructions(last[1].text, "ADD")
        IN  last[1].result.original_time
              = 30 + 5 * Cardinality(Instructions(last[1].text, "COPY"))
                   + SumOver(adds, [x \in adds |-> AddSeconds(x[2])])

Skippable == {"4.2", "4.5", "4.8", "4.11"}

\* C23: at least 7 items are assessed (passed or failed) for every text: only
\* 4.2, 4.5, 4.8 and 4.11 are ever skipped, 4.5 always, so a compliance score
\* is always computed.  Stated where main() has computed the score; neither
\* is changed later.
C23_ScoreAlwaysComputed ==
    (cis_assessment # <<>> /\ pc = "healthcheck") =>
        /\ Len(cis_assessment[1].passed) + Len(cis_assessment[1].failed) >= 7
        /\ IdsOf(cis_assessment[1].skipped) \subseteq Skippable
        /\ "4.5" \in IdsOf(cis_assessment[1].skipped)
        /\ compliance # <<>> => compliance[1] # NoScore

\* all four skippable items skipped and a score computed from the other seven
C23_Witness ==
    /\ cis_assessment # <<>>
    /\ pc = "healthcheck"
    /\ compliance # <<>>
    /\ IdsOf(cis_assessment[1].skipped) = Skippable
    /\ Len(cis_assessment[1].passed) + Len(cis_assessment[1].failed) = 7
    /\ compliance[1] >= 0

\* C24: the optimized size returned (rounded to one decimal) is at most the
\* original size returned, and the optimized time returned (truncated to
\* seconds) is at most the original time returned, multi-stage or not.
C24_OptimizedAtMostOriginal ==
    /\ size_estimate # <<>> => size_estimate[1].optimized_size <= size_estimate[1].original_size
    /\ time_estimate # <<>> => time_estimate[1].optimized_time <= time_estimate[1].original_time

\* both estimates made in the multi-stage branch, the optimized size rounded
\* from a raw value that is not a tenth
C24_Witness ==
    /\ size_estimate # <<>>
    /\ time_estimate # <<>>
    /\ size_estimate[1].multi_stage
    /\ time_estimate[1].multi_stage
    /\ size_estimate[1].optimized_raw % 100 # 0
    /\ size_estimate[1].optimized_size < size_estimate[1].original_size
    /\ time_estimate[1].optimized_time < time_estimate[1].original_time

\* C25: the original size returned is at least 0.2 GB and the original time
\* returned is at least 30 seconds, so the reduction percentages divide by a
\* value that is not zero.
C25_OriginalsNeverZero ==
    /\ Called("enhanced_image_size_estimation") => last[1].result.original_size >= 200
    /\ Called("enhanced_build_time_estimation") => last[1].result.original_time >= 30

\* the smallest pair: the size of FROM scratch, then the time of the same text
C25_Witness ==
    /\ first # <<>>
    /\ first[1].fn = "enhanced_image_size_estimation"
    /\ first[1].result.original_size = 200
    /\ Called("enhanced_build_time_estimation")
    /\ last[1].text = first[1].text
    /\ last[1].result.original_time = 30

MultiStageKey == "Multi-stage build"

\* C26: the size estimator, the build-time estimator, the checklist and the
\* environment analysis classify a text alike: all four as multi-stage or
\* none of them.
C26_DetectorsAgree ==
    (size_estimate # <<>> /\ time_estimate # <<>> /\ security_checks # <<>>
        /\ env_analysis # <<>>) =>
        /\ size_estimate[1].multi_stage = time_estimate[1].multi_stage
        /\ time_estimate[1].multi_stage = security_checks[1][MultiStageKey]
        /\ security_checks[1][MultiStageKey] = env_analysis[1].multi_stage

\* the volume flags of t
VolumeFlags(t) == Occurrences(t, "-v ") \cup Occurrences(t, "--volume ")

\* the mount risk records among the risks r
MountRecords(r) ==
    {n \in 1..Len(r) : StartsAt(r[n].title, "Mounting sensitive host path ", 1)}

\* C27: a text with one volume flag that mounts a sensitive host path gives
\* exactly one mount risk record; -v /var/run/docker.sock gives one HIGH
\* record, none for its prefix /var.
C27_OneRecordPerMount ==
    (Called("analyze_container_escape_risks")
        /\ Cardinality(VolumeFlags(last[1].text)) = 1
        /\ MountRecords(last[1].result) # {}) =>
        /\ Cardinality(MountRecords(last[1].result)) = 1
        /\ \A n \in MountRecords(last[1].result) : last[1].result[n].severity = "HIGH"

\* C28: when main() ends with the validation failure the files are as the
\* run found them: the Dockerfile unchanged, no .dockerignore and no report
\* created.
C28_NothingWrittenOnValidationFailure ==
    (ValidationFailed /\ disk_before # <<>>) =>
        /\ disk.dockerfile = disk_before[1].dockerfile
        /\ disk.dockerignore = disk_before[1].dockerignore
        /\ disk.report = disk_before[1].report

\* what the user may answer at the prompt of apply_optimized_dockerfile
AnyAnswers == Answers \cup {"", "yes"}

\* C29: apply_optimized_dockerfile overwrites the Dockerfile only on the
\* answer y and with the backup written, the backup holding the content the
\* Dockerfile had; on any other answer neither file is written; when the
\* backup cannot be written the Dockerfile is left as it was.  Stated for
\* every outcome of the call main() is about to make, and for the files main()
\* has after the call.
C29_BackupBeforeOverwrite ==
    /\ (pc = "apply" /\ optimized # <<>>) =>
          \A response \in AnyAnswers : \A backed_up \in BOOLEAN : \A written \in BOOLEAN :
             LET after == apply_optimized_dockerfile(disk, optimized[1], response,
                                                     backed_up, written)
             IN  /\ after.dockerfile # disk.dockerfile =>
                       /\ response = "y"
                       /\ after.backup = <<disk.dockerfile>>
                       /\ after.dockerfile = optimized[1]
                 /\ response # "y" => after = disk
                 /\ ~backed_up => after.dockerfile = disk.dockerfile
    /\ (pc = "scan" /\ optimized # <<>> /\ disk.dockerfile = optimized[1]) =>
          /\ disk.backup # <<>>
          /\ disk.backup[1] \in SeenTexts

\* the Dockerfile was overwritten and the backup holds what it held
C29_Witness ==
    /\ pc = "scan"
    /\ optimized # <<>>
    /\ disk.dockerfile = optimized[1]
    /\ disk.backup = <<dockerfile_text>>
    /\ dockerfile_text # optimized[1]

\* where the block goes in t: the number of characters before the first
\* CMD or ENTRYPOINT keyword, the whole length when there is neither
BlockOffset(t) ==
    LET keywords == Occurrences(t, "CMD ") \cup Occurrences(t, "ENTRYPOINT ")
    IN  IF keywords = {} THEN Len(t) ELSE Min(keywords) - 1

\* r is t with a block holding a HEALTHCHECK instruction inserted behind the
\* first k characters
InsertedAt(t, r, k) ==
    /\ Len(r) > Len(t)
    /\ SubSeq(r, 1, k) = SubSeq(t, 1, k)
    /\ SubSeq(r, k + 1 + Len(r) - Len(t), Len(r)) = SubSeq(t, k + 1, Len(t))
    /\ Contains(SubSeq(r, k + 1, k + Len(r) - Len(t)), "HEALTHCHECK ")

\* C30: the result of add_dockerfile_healthcheck holds HEALTHCHECK; applied
\* to its result it returns the result; the result is the text itself or the
\* text with one block inserted, before the first CMD or ENTRYPOINT when
\* there is one and at the end otherwise, so taking the block out gives the
\* text back.
C30_HealthcheckInsertedOnce ==
    Called("add_dockerfile_healthcheck") =>
        /\ Contains(last[1].result, "HEALTHCHECK")
        /\ add_dockerfile_healthcheck(last[1].result) = last[1].result
        /\ \/ last[1].result = last[1].text /\ Contains(last[1].text, "HEALTHCHECK")
           \/ InsertedAt(last[1].text, last[1].result, BlockOffset(last[1].text))

\* the block inserted at the front, before an ENTRYPOINT that comes before a
\* CMD
C30_Witness ==
    /\ Called("add_dockerfile_healthcheck")
    /\ last[1].text = "ENTRYPOINT a\nCMD b"
    /\ InsertedAt(last[1].text, last[1].result, 0)

====
